---- MODULE Spec2Model ----
(***************************************************************************)
(* A model of org-charm's terminal UI (src/ui/model.go): the per-session   *)
(* bubbletea Model with its Update handler (animation ticks, resize and    *)
(* key events), the spring that drives the animation progress, and the two *)
(* compositors applyWaveRipple and applyPoofToViewport.                    *)
(*                                                                         *)
(* float64 values are fixed-point integers: One stands for 1.0.            *)
(***************************************************************************)
EXTENDS Integers, Sequences, FiniteSets, TLC

VARIABLES
    \* ---- the session (type Model, src/ui/model.go:68-112) ----
    width, height,          \* window dimensions
    nDocs,                  \* len(m.orgFiles)
    selectedIndex,
    currentView,
    viewport,               \* viewport.Model: content, yOffset, w, h
    ready,
    currentDoc,             \* index into orgFiles, or NilDoc
    showHelp,
    rawView,
    animType, animValue, animVelocity, animTarget,
    animFromContent, animToContent,
    pendingTicks,           \* animTick commands returned and not yet delivered
    quitting,               \* tea.Quit was returned
    animTicks,              \* ticks the running (or last) animation has received
    strayTicks,             \* stray ticks handled since the last other message
    \* ---- one call of a compositor ----
    pc,                     \* "session", or the position of the call
    argContent,             \* content (wave) / toContent (poof), as runes
    argFrom,                \* fromContent (poof)
    argValue,               \* m.animValue of the call, in twentieths
    argWidth, argHeight,    \* m.width, m.height of the call
    cellX, cellY,           \* x and y of the loops of applyPoofToViewport
    argNodes,               \* doc.Nodes of a call of renderDocument
    argProfile,             \* colour profile of the renderer of m.styles
    result                  \* the string built (result) and returned

sessionVars == <<width, height, nDocs, selectedIndex, currentView, viewport,
                 ready, currentDoc, showHelp, rawView, animType, animValue,
                 animVelocity, animTarget, animFromContent, animToContent,
                 pendingTicks, quitting, animTicks, strayTicks>>

callVars == <<pc, argContent, argFrom, argValue, argWidth, argHeight, cellX,
              cellY, argNodes, argProfile, result>>

vars == <<sessionVars, callVars>>

----------------------------------------------------------------------------
(* Bounds of the model *)

\* the largest number of parsed org files of a session
MaxDocs == 2
\* the largest scroll offset of the viewport (content lines minus height)
MaxYOffset == 1
\* the largest number of stray ticks in a row
MaxStray == 2

\* the window sizes a WindowSizeMsg can carry
Sizes == {<<80, 24>>}

\* the keys a KeyMsg can carry ("x" is any key Update has no case for)
Keys == {"?", "q", "esc", "c", "up", "down", "home", "end", "enter", "h",
         "r", "n", "p", "x"}

----------------------------------------------------------------------------
(* Constants of the program *)

ViewFileList == "ViewFileList"
ViewDocument == "ViewDocument"
ViewCredits  == "ViewCredits"

AnimNone       == "AnimNone"
AnimWaveRipple == "AnimWaveRipple"
AnimPoof       == "AnimPoof"

\* colour profiles of the lipgloss renderer the styles are built with
Ascii     == "Ascii"
TrueColor == "TrueColor"

\* float64 1.0 in fixed point
One == 1000000

\* the nil *org.OrgFile
NilDoc == 0 - 1

\* harmonica.NewSpring(harmonica.FPS(animFPS), animFrequency, animDamping):
\* with deltaTime = 0.016666666 s, angular frequency 2.5 and damping ratio 1.0
\* (critically damped) the four coefficients are
\*   posPosCoef = (1 + w*dt) * exp(-w*dt)     posVelCoef = dt * exp(-w*dt)
\*   velPosCoef = -w*w*dt * exp(-w*dt)        velVelCoef = (1 - w*dt) * exp(-w*dt)
\* in units of 1/One.
posPosCoef == 999156
posVelCoef == 15986
velPosCoef == 0 - 99916
velVelCoef == 919223

\* completion thresholds of the tick handler: 0.99 and 0.005
CompleteValue == 990000
CompleteVelocity == 5000

Abs(x) == IF x < 0 THEN 0 - x ELSE x

Min(a, b) == IF a < b THEN a ELSE b

Max(a, b) == IF a > b THEN a ELSE b

\* a * c / One in thousandths of a unit, without leaving 32 bits
\* (a = ah*1000 + al with 0 <= al < 1000)
MulMilli(a, c) == (a \div 1000) * c + (((a % 1000) * c) \div 1000)

\* a spring whose velocity is not damped
SpringUpdateUndamped(pos, vel, target) ==
    LET oldPos == pos - target
    IN [pos |-> ((MulMilli(oldPos, posPosCoef) + MulMilli(vel, posVelCoef) + 500) \div 1000) + target,
        vel |-> ((MulMilli(oldPos, velPosCoef) + 500) \div 1000) + vel]

\* Spring.Update(pos, vel, equilibriumPos): one fixed time step
SpringUpdate(pos, vel, target) ==
    LET oldPos == pos - target
    IN [pos |-> ((MulMilli(oldPos, posPosCoef) + MulMilli(vel, posVelCoef) + 500) \div 1000) + target,
        vel |-> (MulMilli(oldPos, velPosCoef) + MulMilli(vel, velVelCoef) + 500) \div 1000]

----------------------------------------------------------------------------
(* The viewport (bubbles/viewport) and the strings it shows *)

\* the empty string
EmptyString == [kind |-> "empty", doc |-> NilDoc, w |-> 0]

\* m.renderDocument(doc): depends on the document and on m.width
renderDocument(m, doc) == [kind |-> "rendered", doc |-> doc, w |-> m.width]

\* doc.RawContent
RawContent(doc) == [kind |-> "raw", doc |-> doc, w |-> 0]

\* m.renderCreditsContent(): depends on m.width
renderCreditsContent(m) == [kind |-> "credits", doc |-> NilDoc, w |-> m.width]

\* the displayed string of "": what the cleared fields animFromContent and
\* animToContent hold
EmptyView == [content |-> EmptyString, yOffset |-> 0, w |-> 0, h |-> 0]

\* viewport.New / the zero viewport.Model
ZeroViewport == [content |-> EmptyString, yOffset |-> 0, w |-> 0, h |-> 0]

\* viewport.SetContent(s)
SetContent(vp, s) == [vp EXCEPT !.content = s]

\* viewport.GotoTop()
GotoTop(vp) == [vp EXCEPT !.yOffset = 0]

\* viewport.GotoBottom()
GotoBottom(vp) == [vp EXCEPT !.yOffset = MaxYOffset]

\* viewport.View(): the visible window of the content
ViewportView(vp) == vp

\* viewport.Update(msg): the scroll keys move the offset, every other
\* message is ignored
ViewportUpdate(vp, msg) ==
    IF msg.type # "key" THEN vp
    ELSE IF msg.key = "down" THEN [vp EXCEPT !.yOffset = Min(vp.yOffset + 1, MaxYOffset)]
    ELSE IF msg.key = "up" THEN [vp EXCEPT !.yOffset = Max(vp.yOffset - 1, 0)]
    ELSE vp

----------------------------------------------------------------------------
(* The session: Model, NewModel, Init and Update *)

\* the Model value the handlers receive
M == [width |-> width, height |-> height, nDocs |-> nDocs,
      selectedIndex |-> selectedIndex, currentView |-> currentView,
      viewport |-> viewport, ready |-> ready, currentDoc |-> currentDoc,
      showHelp |-> showHelp, rawView |-> rawView, animType |-> animType,
      animValue |-> animValue, animVelocity |-> animVelocity,
      animTarget |-> animTarget, animFromContent |-> animFromContent,
      animToContent |-> animToContent]

\* what Update returns: the new Model, the number of animTick commands in
\* the returned batch, and whether tea.Quit was returned
Ret(m, ticks, quit) == [m |-> m, ticks |-> ticks, quit |-> quit]

\* NewModel(renderer, files, changelog) with n files that parse
NewModel(n) ==
    [width |-> 0, height |-> 0, nDocs |-> n, selectedIndex |-> 0,
     currentView |-> ViewFileList, viewport |-> ZeroViewport, ready |-> FALSE,
     currentDoc |-> NilDoc, showHelp |-> FALSE, rawView |-> FALSE,
     animType |-> AnimWaveRipple, animValue |-> 0, animVelocity |-> 0,
     animTarget |-> One, animFromContent |-> EmptyView,
     animToContent |-> EmptyView]

AnimCompleteAt95(value, velocity) == value > 950000

\* the completion test of the tick handler
AnimComplete(value, velocity) ==
    value > CompleteValue /\ Abs(velocity) < CompleteVelocity

UpdateAnimTickReschedules(m) ==
    IF m.animType # AnimNone
    THEN LET s == SpringUpdate(m.animValue, m.animVelocity, m.animTarget)
         IN IF AnimComplete(s.pos, s.vel)
            THEN Ret([m EXCEPT !.animValue = One, !.animVelocity = 0,
                               !.animType = AnimNone,
                               !.animFromContent = EmptyView,
                               !.animToContent = EmptyView], 0, FALSE)
            ELSE Ret([m EXCEPT !.animValue = s.pos, !.animVelocity = s.vel],
                     1, FALSE)
    ELSE Ret(m, 1, FALSE)

UpdateAnimTickStops(m) ==
    IF m.animType # AnimNone
    THEN LET s == SpringUpdate(m.animValue, m.animVelocity, m.animTarget)
         IN IF AnimComplete(s.pos, s.vel)
            THEN Ret([m EXCEPT !.animValue = One, !.animVelocity = 0,
                               !.animType = AnimNone,
                               !.animFromContent = EmptyView,
                               !.animToContent = EmptyView], 0, FALSE)
            ELSE Ret([m EXCEPT !.animValue = s.pos, !.animVelocity = s.vel],
                     0, FALSE)
    ELSE Ret(m, 0, FALSE)

\* case animTickMsg
UpdateAnimTick(m) ==
    IF m.animType # AnimNone
    THEN LET s == SpringUpdate(m.animValue, m.animVelocity, m.animTarget)
         IN IF AnimComplete(s.pos, s.vel)
            THEN Ret([m EXCEPT !.animValue = One, !.animVelocity = 0,
                               !.animType = AnimNone,
                               !.animFromContent = EmptyView,
                               !.animToContent = EmptyView], 0, FALSE)
            ELSE Ret([m EXCEPT !.animValue = s.pos, !.animVelocity = s.vel],
                     1, FALSE)
    ELSE Ret(m, 0, FALSE)

\* case tea.WindowSizeMsg
UpdateWindowSize(m, w, h) ==
    LET m1 == [m EXCEPT !.width = w, !.height = h,
                        !.viewport = [@ EXCEPT !.w = w - 4, !.h = h - 7],
                        !.ready = TRUE]
    IN IF m1.currentDoc # NilDoc
       THEN Ret([m1 EXCEPT !.viewport =
                     SetContent(@, renderDocument(m1, m1.currentDoc))], 0, FALSE)
       ELSE Ret(m1, 0, FALSE)

\* an esc that leaves the document view and keeps the document
KeyEscKeepsDoc(m) ==
    IF m.currentView = ViewDocument
    THEN [m EXCEPT !.currentView = ViewFileList, !.rawView = FALSE]
    ELSE IF m.currentView = ViewCredits
    THEN [m EXCEPT !.currentView = ViewFileList]
    ELSE m

\* case "esc"
KeyEsc(m) ==
    IF m.currentView = ViewDocument
    THEN [m EXCEPT !.currentView = ViewFileList, !.currentDoc = NilDoc,
                   !.rawView = FALSE]
    ELSE IF m.currentView = ViewCredits
    THEN [m EXCEPT !.currentView = ViewFileList]
    ELSE m

\* case "c"
KeyCredits(m) ==
    IF m.currentView = ViewFileList
    THEN [m EXCEPT !.currentView = ViewCredits,
                   !.viewport = GotoTop(SetContent(@, renderCreditsContent(m)))]
    ELSE m

\* case "up", "k"
KeyUp(m) ==
    IF m.currentView = ViewFileList /\ m.selectedIndex > 0
    THEN [m EXCEPT !.selectedIndex = @ - 1]
    ELSE m

\* case "down", "j"
KeyDown(m) ==
    IF m.currentView = ViewFileList /\ m.selectedIndex < m.nDocs - 1
    THEN [m EXCEPT !.selectedIndex = @ + 1]
    ELSE m

\* case "home", "g"
KeyHome(m) ==
    IF m.currentView = ViewFileList
    THEN [m EXCEPT !.selectedIndex = 0]
    ELSE [m EXCEPT !.viewport = GotoTop(@)]

\* case "end", "G"
KeyEnd(m) ==
    IF m.currentView = ViewFileList
    THEN [m EXCEPT !.selectedIndex = m.nDocs - 1]
    ELSE [m EXCEPT !.viewport = GotoBottom(@)]

\* an enter that reveals the opened document with the wave again
KeyEnterReveals(m) ==
    IF m.currentView = ViewFileList /\ m.nDocs > 0
    THEN [m EXCEPT !.currentDoc = m.selectedIndex,
                   !.currentView = ViewDocument,
                   !.viewport = GotoTop(SetContent(@,
                                    renderDocument(m, m.selectedIndex))),
                   !.animType = AnimWaveRipple]
    ELSE m

\* case "enter", "l", "right"
KeyEnter(m) ==
    IF m.currentView = ViewFileList /\ m.nDocs > 0
    THEN [m EXCEPT !.currentDoc = m.selectedIndex,
                   !.currentView = ViewDocument,
                   !.viewport = GotoTop(SetContent(@,
                                    renderDocument(m, m.selectedIndex)))]
    ELSE m

\* a step back that also cancels the running animation
KeyBackCancels(m) ==
    IF m.currentView = ViewDocument
    THEN [m EXCEPT !.currentView = ViewFileList, !.currentDoc = NilDoc,
                   !.rawView = FALSE, !.animType = AnimNone]
    ELSE m

\* case "h", "left"
KeyBack(m) ==
    IF m.currentView = ViewDocument
    THEN [m EXCEPT !.currentView = ViewFileList, !.currentDoc = NilDoc,
                   !.rawView = FALSE]
    ELSE m

\* case "r": toggle the raw view and start the poof
KeyRawNoGuard(m) ==
    LET from == ViewportView(m.viewport)
        raw  == ~m.rawView
        vp   == GotoTop(SetContent(m.viewport,
                    IF raw THEN RawContent(m.currentDoc)
                           ELSE renderDocument(m, m.currentDoc)))
    IN IF m.currentView = ViewDocument
       THEN Ret([m EXCEPT !.animFromContent = from, !.rawView = raw,
                          !.viewport = vp,
                          !.animToContent = ViewportView(vp),
                          !.animType = AnimPoof, !.animValue = 0,
                          !.animVelocity = 0, !.animTarget = One], 1, FALSE)
       ELSE Ret(m, 0, FALSE)

\* a toggle that captures the old frame after the content was replaced
KeyRawCapturesAfter(m) ==
    LET raw  == ~m.rawView
        vp   == GotoTop(SetContent(m.viewport,
                    IF raw THEN RawContent(m.currentDoc)
                           ELSE renderDocument(m, m.currentDoc)))
    IN IF m.currentView = ViewDocument /\ m.animType = AnimNone
       THEN Ret([m EXCEPT !.animFromContent = ViewportView(vp), !.rawView = raw,
                          !.viewport = vp,
                          !.animToContent = ViewportView(vp),
                          !.animType = AnimPoof, !.animValue = 0,
                          !.animVelocity = 0, !.animTarget = One], 1, FALSE)
       ELSE Ret(m, 0, FALSE)

\* a toggle that does not test the view
KeyRawInAnyView(m) ==
    LET from == ViewportView(m.viewport)
        raw  == ~m.rawView
        vp   == GotoTop(SetContent(m.viewport,
                    IF raw THEN RawContent(m.currentDoc)
                           ELSE renderDocument(m, m.currentDoc)))
    IN IF m.animType = AnimNone
       THEN Ret([m EXCEPT !.animFromContent = from, !.rawView = raw,
                          !.viewport = vp,
                          !.animToContent = ViewportView(vp),
                          !.animType = AnimPoof, !.animValue = 0,
                          !.animVelocity = 0, !.animTarget = One], 1, FALSE)
       ELSE Ret(m, 0, FALSE)

KeyRaw(m) ==
    LET from == ViewportView(m.viewport)
        raw  == ~m.rawView
        vp   == GotoTop(SetContent(m.viewport,
                    IF raw THEN RawContent(m.currentDoc)
                           ELSE renderDocument(m, m.currentDoc)))
    IN IF m.currentView = ViewDocument /\ m.animType = AnimNone
       THEN Ret([m EXCEPT !.animFromContent = from, !.rawView = raw,
                          !.viewport = vp,
                          !.animToContent = ViewportView(vp),
                          !.animType = AnimPoof, !.animValue = 0,
                          !.animVelocity = 0, !.animTarget = One], 1, FALSE)
       ELSE Ret(m, 0, FALSE)

\* case "n", "tab"
KeyNext(m) ==
    IF m.currentView = ViewDocument /\ m.nDocs > 1
    THEN LET i == (m.selectedIndex + 1) % m.nDocs
         IN [m EXCEPT !.selectedIndex = i, !.currentDoc = i,
                      !.rawView = FALSE,
                      !.viewport = GotoTop(SetContent(@, renderDocument(m, i)))]
    ELSE m

\* a step to the previous document that stops at the first one
KeyPrevStopsAtFirst(m) ==
    IF m.currentView = ViewDocument /\ m.nDocs > 1
    THEN LET i == Max(m.selectedIndex - 1, 0)
         IN [m EXCEPT !.selectedIndex = i, !.currentDoc = i,
                      !.rawView = FALSE,
                      !.viewport = GotoTop(SetContent(@, renderDocument(m, i)))]
    ELSE m

\* case "p", "shift+tab"
KeyPrev(m) ==
    IF m.currentView = ViewDocument /\ m.nDocs > 1
    THEN LET i == IF m.selectedIndex - 1 < 0 THEN m.nDocs - 1
                  ELSE m.selectedIndex - 1
         IN [m EXCEPT !.selectedIndex = i, !.currentDoc = i,
                      !.rawView = FALSE,
                      !.viewport = GotoTop(SetContent(@, renderDocument(m, i)))]
    ELSE m

\* the switch on msg.String() of case tea.KeyMsg, after the help handling
KeySwitch(m, key) ==
    CASE key = "esc"   -> Ret(KeyEsc(m), 0, FALSE)
      [] key = "c"     -> Ret(KeyCredits(m), 0, FALSE)
      [] key = "up"    -> Ret(KeyUp(m), 0, FALSE)
      [] key = "down"  -> Ret(KeyDown(m), 0, FALSE)
      [] key = "home"  -> Ret(KeyHome(m), 0, FALSE)
      [] key = "end"   -> Ret(KeyEnd(m), 0, FALSE)
      [] key = "enter" -> Ret(KeyEnter(m), 0, FALSE)
      [] key = "h"     -> Ret(KeyBack(m), 0, FALSE)
      [] key = "r"     -> KeyRaw(m)
      [] key = "n"     -> Ret(KeyNext(m), 0, FALSE)
      [] key = "p"     -> Ret(KeyPrev(m), 0, FALSE)
      [] OTHER         -> Ret(m, 0, FALSE)

\* the tail of Update: the viewport sees the message in the document and
\* credits views when the help is closed
UpdateTail(r, msg) ==
    IF r.m.currentView \in {ViewDocument, ViewCredits} /\ ~r.m.showHelp
    THEN [r EXCEPT !.m.viewport = ViewportUpdate(@, msg)]
    ELSE r

\* a handler that tests the quit keys before the help overlay
UpdateQuitsUnderHelp(m, msg) ==
    CASE msg.type = "animTick" -> UpdateTail(UpdateAnimTick(m), msg)
      [] msg.type = "windowSize" ->
            UpdateTail(UpdateWindowSize(m, msg.w, msg.h), msg)
      [] msg.type = "key" ->
            IF msg.key = "?" THEN Ret([m EXCEPT !.showHelp = ~@], 0, FALSE)
            ELSE IF msg.key = "q" THEN Ret(m, 0, TRUE)
            ELSE IF m.showHelp THEN Ret([m EXCEPT !.showHelp = FALSE], 0, FALSE)
            ELSE UpdateTail(KeySwitch(m, msg.key), msg)

\* Update(msg): the whole handler
Update(m, msg) ==
    CASE msg.type = "animTick" -> UpdateTail(UpdateAnimTick(m), msg)
      [] msg.type = "windowSize" ->
            UpdateTail(UpdateWindowSize(m, msg.w, msg.h), msg)
      [] msg.type = "key" ->
            IF msg.key = "?" THEN Ret([m EXCEPT !.showHelp = ~@], 0, FALSE)
            ELSE IF m.showHelp THEN Ret([m EXCEPT !.showHelp = FALSE], 0, FALSE)
            ELSE IF msg.key = "q" THEN Ret(m, 0, TRUE)
            ELSE UpdateTail(KeySwitch(m, msg.key), msg)

animTickMsg == [type |-> "animTick"]

WindowSizeMsg(w, h) == [type |-> "windowSize", w |-> w, h |-> h]

KeyMsg(key) == [type |-> "key", key |-> key]

\* the session takes the Model an Update returned
Becomes(m) ==
    /\ width' = m.width
    /\ height' = m.height
    /\ nDocs' = m.nDocs
    /\ selectedIndex' = m.selectedIndex
    /\ currentView' = m.currentView
    /\ viewport' = m.viewport
    /\ ready' = m.ready
    /\ currentDoc' = m.currentDoc
    /\ showHelp' = m.showHelp
    /\ rawView' = m.rawView
    /\ animType' = m.animType
    /\ animValue' = m.animValue
    /\ animVelocity' = m.animVelocity
    /\ animTarget' = m.animTarget
    /\ animFromContent' = m.animFromContent
    /\ animToContent' = m.animToContent

\* the call variables while a session runs
NoCall ==
    /\ pc = "session"
    /\ argContent = <<>>
    /\ argFrom = <<>>
    /\ argValue = 0
    /\ argWidth = 0
    /\ argHeight = 0
    /\ cellX = 0
    /\ cellY = 0
    /\ argNodes = <<>>
    /\ argProfile = TrueColor
    /\ result = <<>>

\* NewModel followed by Init(), which returns animTick()
Init ==
    /\ width = 0
    /\ height = 0
    /\ nDocs \in 0..MaxDocs
    /\ selectedIndex = 0
    /\ currentView = ViewFileList
    /\ viewport = ZeroViewport
    /\ ready = FALSE
    /\ currentDoc = NilDoc
    /\ showHelp = FALSE
    /\ rawView = FALSE
    /\ animType = AnimWaveRipple
    /\ animValue = 0
    /\ animVelocity = 0
    /\ animTarget = One
    /\ animFromContent = EmptyView
    /\ animToContent = EmptyView
    /\ pendingTicks = 1
    /\ quitting = FALSE
    /\ animTicks = 0
    /\ strayTicks = 0
    /\ NoCall

\* the program delivers msg to Update and runs the commands it returns;
\* consumed is the number of pending ticks the delivery uses up
Deliver(msg, consumed) ==
    LET r == Update(M, msg)
    IN /\ ~quitting
       /\ Becomes(r.m)
       /\ pendingTicks' = pendingTicks - consumed + r.ticks
       /\ quitting' = r.quit
       /\ animTicks' = IF animType = AnimNone /\ r.m.animType # AnimNone THEN 0
                       ELSE IF msg.type = "animTick" /\ animType # AnimNone
                       THEN animTicks + 1
                       ELSE animTicks
       /\ UNCHANGED callVars

\* a scheduled tick fires (tea.Tick, one frame after it was returned)
AnimTick ==
    /\ pendingTicks > 0
    /\ Deliver(animTickMsg, 1)
    /\ strayTicks' = 0

\* the terminal is resized
Resize(w, h) ==
    /\ Deliver(WindowSizeMsg(w, h), 0)
    /\ strayTicks' = 0

\* the user presses a key
KeyPress(key) ==
    /\ Deliver(KeyMsg(key), 0)
    /\ strayTicks' = 0

\* an animTickMsg that no pending command accounts for, after the animation
\* was deactivated
StrayTick ==
    /\ animType = AnimNone
    /\ strayTicks < MaxStray
    /\ Deliver(animTickMsg, 0)
    /\ strayTicks' = strayTicks + 1

Next ==
    \/ AnimTick
    \/ \E s \in Sizes : Resize(s[1], s[2])
    \/ \E key \in Keys : KeyPress(key)

Spec == Init /\ [][Next]_vars

NextStray == Next \/ StrayTick

\* the session with stray ticks
StraySpec == Init /\ [][NextStray]_vars

----------------------------------------------------------------------------
(* Styled strings: sequences of runes, each rune a string *)

\* '\033'
ESC == "ESC"

\* the runes r with (r >= 'a' && r <= 'z') || (r >= 'A' && r <= 'Z')
Letters ==
    {"a", "b", "c", "d", "e", "f", "g", "h", "i", "j", "k", "l", "m", "n",
     "o", "p", "q", "r", "s", "t", "u", "v", "w", "x", "y", "z",
     "A", "B", "C", "D", "E", "F", "G", "H", "I", "J", "K", "L", "M", "N",
     "O", "P", "Q", "R", "S", "T", "U", "V", "W", "X", "Y", "Z"}

IsLetter(r) == r \in Letters

\* a byte that is not part of a valid UTF-8 encoding, and utf8.RuneError,
\* the rune a range loop yields for it and WriteRune writes
BadByte == "0xFF"
RuneError == "U+FFFD"

\* the rune `for _, r := range s` yields at an element of s
DecodeRune(b) == IF b = BadByte THEN RuneError ELSE b

StripRuneEndsAtDigit(st, s) ==
    LET r == DecodeRune(s[st.i])
    IN IF r = ESC THEN [st EXCEPT !.inEscape = TRUE, !.i = @ + 1]
       ELSE IF st.inEscape
       THEN [st EXCEPT !.inEscape = ~(IsLetter(r) \/ r = "1"), !.i = @ + 1]
       ELSE [st EXCEPT !.out = Append(@, r), !.i = @ + 1]

\* the body of the loop of stripANSI, on the rune st.i of s
StripRune(st, s) ==
    LET r == DecodeRune(s[st.i])
    IN IF r = ESC THEN [st EXCEPT !.inEscape = TRUE, !.i = @ + 1]
       ELSE IF st.inEscape
       THEN [st EXCEPT !.inEscape = ~IsLetter(r), !.i = @ + 1]
       ELSE [st EXCEPT !.out = Append(@, r), !.i = @ + 1]

RECURSIVE StripRange(_, _, _)
\* the loop of stripANSI over the runes st.i..hi of s, in order: the runes up
\* to the middle first, then the others from the state these leave
StripRange(st, s, hi) ==
    IF st.i > hi THEN st
    ELSE IF st.i = hi THEN StripRune(st, s)
    ELSE StripRange(StripRange(st, s, (st.i + hi) \div 2), s, hi)

\* stripANSI(s)
stripANSI(s) ==
    StripRange([out |-> <<>>, inEscape |-> FALSE, i |-> 1], s, Len(s)).out

\* strings.Split(s, "\n") on the rune st.i of s: cur is the line read so far
SplitRune(st, s) ==
    IF s[st.i] = "\n"
    THEN [lines |-> Append(st.lines, st.cur), cur |-> <<>>, i |-> st.i + 1]
    ELSE [st EXCEPT !.cur = Append(@, s[st.i]), !.i = @ + 1]

RECURSIVE SplitRange(_, _, _)
\* strings.Split(s, "\n") over the runes st.i..hi of s, in order
SplitRange(st, s, hi) ==
    IF st.i > hi THEN st
    ELSE IF st.i = hi THEN SplitRune(st, s)
    ELSE SplitRange(SplitRange(st, s, (st.i + hi) \div 2), s, hi)

\* strings.Split(s, "\n")
SplitLines(s) ==
    LET st == SplitRange([lines |-> <<>>, cur |-> <<>>, i |-> 1], s, Len(s))
    IN Append(st.lines, st.cur)

----------------------------------------------------------------------------
(* applyWaveRipple.  The progress m.animValue of a call is given in        *)
(* twentieths (value / 20), so that the comparisons of distances, which    *)
(* the code makes on float64 square roots, are exact on squares.           *)

\* the colour codes and glyphs of the wave
blueLight == <<ESC, "[", "3", "8", ";", "2", ";", "1", "2", "2", ";",
               "1", "6", "2", ";", "2", "4", "7", "m">>
blueMed   == <<ESC, "[", "3", "8", ";", "2", ";", "8", "6", ";",
               "9", "5", ";", "1", "3", "7", "m">>
blueDark  == <<ESC, "[", "3", "8", ";", "2", ";", "5", "9", ";",
               "6", "6", ";", "9", "7", "m">>
reset     == <<ESC, "[", "0", "m">>
LightShade  == "U+2591"
MediumShade == "U+2592"
DarkShade   == "U+2593"

NearlyCompleteAboveOne(value) == value > 20

\* m.animValue > 0.95
NearlyComplete(value) == 100 * value > 95 * 20

\* centerX, centerY, maxDist squared, and the progress of a call
Geometry(value, w, h) ==
    LET cx == w \div 2
        cy == h \div 2
    IN [cx |-> cx, cy |-> cy, m2 |-> cx * cx + cy * cy, value |-> value,
        width |-> w]

\* dx*dx + dy*dy of the cell (x, y)
Dist2(g, x, y) == (x - g.cx) * (x - g.cx) + (y - g.cy) * (y - g.cy)

\* dist < maxDist * num / 2000
DistBelow(g, x, y, num) ==
    /\ num > 0
    /\ Dist2(g, x, y) * 4000000 < g.m2 * num * num

\* dist < waveRadius - waveWidth, with waveRadius = animValue * maxDist * 1.15
\* and waveWidth = maxDist * 0.12
InsideWave(g, x, y) == DistBelow(g, x, y, 115 * g.value - 240)

\* dist < waveRadius
OnCrest(g, x, y) == DistBelow(g, x, y, 115 * g.value)

\* wavePos > 0.7 and wavePos > 0.4, with wavePos = (waveRadius - dist) / waveWidth
WavePosAbove7(g, x, y) == DistBelow(g, x, y, 115 * g.value - 168)
WavePosAbove4(g, x, y) == DistBelow(g, x, y, 115 * g.value - 96)

\* the wave character of a cell on the crest
CrestGlyph(g, x, y) ==
    IF WavePosAbove7(g, x, y) THEN blueLight \o <<LightShade>> \o reset
    ELSE IF WavePosAbove4(g, x, y) THEN blueMed \o <<MediumShade>> \o reset
    ELSE blueDark \o <<DarkShade>> \o reset

WaveCellNoCrest(g, r, x, y) ==
    IF InsideWave(g, x, y) THEN <<r>> ELSE <<" ">>

\* what a regular character r at the cell (x, y) writes
WaveCell(g, r, x, y) ==
    IF InsideWave(g, x, y) THEN <<r>>
    ELSE IF OnCrest(g, x, y) THEN CrestGlyph(g, x, y)
    ELSE <<" ">>

\* the state of the scan at the start of a line
LineStart == [out |-> <<>>, visualCol |-> 0, inEscape |-> FALSE,
              escapeSeq |-> <<>>]

ScanRuneUngated(g, st, r, y) ==
    IF r = ESC
    THEN [st EXCEPT !.inEscape = TRUE, !.escapeSeq = <<ESC>>]
    ELSE IF st.inEscape
    THEN LET seq == Append(st.escapeSeq, r)
         IN IF IsLetter(r)
            THEN [st EXCEPT !.inEscape = FALSE, !.escapeSeq = seq,
                            !.out = @ \o seq]
            ELSE [st EXCEPT !.escapeSeq = seq]
    ELSE [st EXCEPT !.out = @ \o WaveCell(g, r, st.visualCol, y),
                    !.visualCol = @ + 1]

\* the body of the loop over the runes of a line
ScanRune(g, st, r, y) ==
    IF r = ESC
    THEN [st EXCEPT !.inEscape = TRUE, !.escapeSeq = <<ESC>>]
    ELSE IF st.inEscape
    THEN LET seq == Append(st.escapeSeq, r)
         IN IF IsLetter(r)
            THEN [st EXCEPT !.inEscape = FALSE, !.escapeSeq = seq,
                            !.out = @ \o (IF InsideWave(g, st.visualCol, y)
                                          THEN seq ELSE <<>>)]
            ELSE [st EXCEPT !.escapeSeq = seq]
    ELSE [st EXCEPT !.out = @ \o WaveCell(g, r, st.visualCol, y),
                    !.visualCol = @ + 1]

RECURSIVE ScanFrom(_, _, _, _, _)
\* the loop over the runes of a line, from rune i on
ScanFrom(g, st, line, i, y) ==
    IF i > Len(line) THEN st
    ELSE ScanFrom(g, ScanRune(g, st, DecodeRune(line[i]), y), line, i + 1, y)

\* the scan of a whole line
ScanLine(g, line, y) == ScanFrom(g, LineStart, line, 1, y)

RECURSIVE PadFrom(_, _, _)
\* the padding loop: for visualCol < m.width
PadFrom(g, x, y) ==
    IF x < g.width
    THEN WaveCell(g, " ", x, y) \o PadFrom(g, x + 1, y)
    ELSE <<>>

\* what one line of the content writes
WaveLine(g, line, y) ==
    LET st == ScanLine(g, line, y)
    IN st.out \o PadFrom(g, st.visualCol, y)

RECURSIVE WaveFrom(_, _, _)
\* the loop over the lines, from line i on (y = i - 1)
WaveFrom(g, lines, i) ==
    IF i > Len(lines) THEN <<>>
    ELSE (IF i > 1 THEN <<"\n">> ELSE <<>>)
         \o WaveLine(g, lines[i], i - 1) \o WaveFrom(g, lines, i + 1)

\* applyWaveRipple(content) with m.animValue = value / 20, m.width = w and
\* m.height = h
applyWaveRipple(content, value, w, h) ==
    IF NearlyComplete(value) THEN content
    ELSE WaveFrom(Geometry(value, w, h), SplitLines(content), 1)

----------------------------------------------------------------------------
(* One call of applyWaveRipple on a content drawn from a bounded set *)

\* the largest number of pieces a content is made of
MaxTokens == 4

\* a styling sequence of a content (bold) and its reset sequence, written
\* "\033[m" so that it differs from the reset the wave writes after a glyph
styleOn  == <<ESC, "[", "1", "m">>
styleOff == <<ESC, "[", "m">>

\* the pieces: a letter, a control character, the two styling sequences, a
\* sequence cut short, and a line break
ContentTokens ==
    {<<"a">>, <<"\t">>, styleOn, styleOff, <<ESC, "[">>, <<"\n">>}

RECURSIVE Flatten(_)
Flatten(ts) == IF ts = <<>> THEN <<>> ELSE Head(ts) \o Flatten(Tail(ts))

Contents ==
    {Flatten(ts) : ts \in UNION {[1..n -> ContentTokens] : n \in 0..MaxTokens}}

\* the progress values of a call, in twentieths
ProgressValues == {0, 2, 6, 10, 14, 18, 19, 20}

\* the frames <<m.width, m.height>> of a call
FrameSizes == {<<1, 1>>, <<2, 1>>, <<5, 1>>, <<5, 3>>}

\* the session of a compositor call: the fields the compositors do not read
IdleSession ==
    /\ width = argWidth
    /\ height = argHeight
    /\ nDocs = 0
    /\ selectedIndex = 0
    /\ currentView = ViewFileList
    /\ viewport = ZeroViewport
    /\ ready = TRUE
    /\ currentDoc = NilDoc
    /\ showHelp = FALSE
    /\ rawView = FALSE
    /\ animType = AnimWaveRipple
    /\ animValue = 0
    /\ animVelocity = 0
    /\ animTarget = One
    /\ animFromContent = EmptyView
    /\ animToContent = EmptyView
    /\ pendingTicks = 1
    /\ quitting = FALSE
    /\ animTicks = 0
    /\ strayTicks = 0

InitWave ==
    /\ pc = "callWave"
    /\ argContent \in Contents
    /\ argFrom = <<>>
    /\ argValue \in ProgressValues
    /\ \E f \in FrameSizes : argWidth = f[1] /\ argHeight = f[2]
    /\ cellX = 0
    /\ cellY = 0
    /\ argNodes = <<>>
    /\ argProfile = TrueColor
    /\ result = <<>>
    /\ IdleSession

\* View() calls m.applyWaveRipple(content)
WaveCall ==
    /\ pc = "callWave"
    /\ result' = applyWaveRipple(argContent, argValue, argWidth, argHeight)
    /\ pc' = "doneWave"
    /\ UNCHANGED <<sessionVars, argNodes, argProfile, argContent,
                 argFrom, argValue, argWidth,
                   argHeight, cellX, cellY>>

WaveSpec == InitWave /\ [][WaveCall]_vars

----------------------------------------------------------------------------
(* One call of stripANSI on a string drawn from a bounded set *)

\* the largest length of the string
MaxRunes == 5

\* the elements of the strings: ESC, a letter, two characters that are no
\* letters, a letter outside ASCII, and a byte that is no valid UTF-8
StripRunes == {ESC, "m", "[", "1", "U+00E9", BadByte}

StripInputs == UNION {[1..n -> StripRunes] : n \in 0..MaxRunes}

InitStrip ==
    /\ pc = "callStrip"
    /\ argContent \in StripInputs
    /\ argFrom = <<>>
    /\ argValue = 0
    /\ argWidth = 0
    /\ argHeight = 0
    /\ cellX = 0
    /\ cellY = 0
    /\ argNodes = <<>>
    /\ argProfile = TrueColor
    /\ result = <<>>
    /\ IdleSession

\* applyPoofToViewport calls stripANSI(l)
StripCall ==
    /\ pc = "callStrip"
    /\ result' = stripANSI(argContent)
    /\ pc' = "doneStrip"
    /\ UNCHANGED <<sessionVars, argNodes, argProfile, argContent,
                 argFrom, argValue, argWidth,
                   argHeight, cellX, cellY>>

StripSpec == InitStrip /\ [][StripCall]_vars

----------------------------------------------------------------------------
(* applyPoofToViewport.  The two draws of a cell, secureRandInt(100) and    *)
(* secureRandRune(poofChars), are choices of the step that writes the cell. *)

\* the particle characters
poofChars == <<"U+00B7", "U+2218", "U+00B0", "U+22C5", "U+2726", "U+2727",
               "U+2217", "U+2055", "U+203B", " ">>

\* the values of secureRandInt(100)
RandInt100 == 0..99

\* fromClean, toClean and maxLines of a call
PoofGrid(fromContent, toContent) ==
    LET fromLines == SplitLines(fromContent)
        toLines   == SplitLines(toContent)
    IN [fromClean |-> [i \in 1..Len(fromLines) |-> stripANSI(fromLines[i])],
        toClean   |-> [i \in 1..Len(toLines) |-> stripANSI(toLines[i])],
        maxLines  |-> Max(Len(fromLines), Len(toLines))]

\* centerX, centerY, maxDist squared (1 when maxDist < 1) and the progress
PoofGeometry(value, w, maxLines) ==
    LET cx == w \div 2
        cy == maxLines \div 2
    IN [cx |-> cx, cy |-> cy,
        m2 |-> IF cx * cx + cy * cy < 1 THEN 1 ELSE cx * cx + cy * cy,
        value |-> value, width |-> w]

\* fromLineClean / toLineClean of the row y: empty beyond the range
CleanLine(clean, y) == IF y < Len(clean) THEN clean[y + 1] ELSE <<>>

MaxColsOfWidth(grid, w, y) == w

\* maxCols of the row y
MaxCols(grid, w, y) ==
    Max(Max(Len(CleanLine(grid.fromClean, y)),
            Len(CleanLine(grid.toClean, y))), w)

\* fromR / toR: the rune at x, ' ' beyond the line
RuneAt(line, x) == IF x < Len(line) THEN line[x + 1] ELSE " "

\* dist / maxDist > b / a, for a > 0
FartherThan(g, x, y, a, b) ==
    \/ b < 0
    \/ a * a * Dist2(g, x, y) > b * b * g.m2

\* localAnim < 0.3, with localAnim = animValue - dist / maxDist * 0.2
\* clamped to [0, 1]
ShowOld(g, x, y) == FartherThan(g, x, y, 4, g.value - 6)

\* localAnim < 0.7
BeforeReform(g, x, y) == FartherThan(g, x, y, 4, g.value - 14)

\* int(scatterChance * 70), with scatterChance = localAnim / 0.3: the
\* number of k >= 1 with localAnim >= 0.3 * k / 70
ScatterPercent(g, x, y) ==
    Cardinality({k \in 1..70 :
                    ~FartherThan(g, x, y, 140, 35 * g.value - 3 * k)})

\* int(reformProgress * 100), with reformProgress = (localAnim - 0.7) / 0.3:
\* the number of k >= 1 with localAnim >= 0.7 + 0.3 * k / 100
ReformPercent(g, x, y) ==
    Cardinality({k \in 1..100 :
                    ~FartherThan(g, x, y, 200, 50 * g.value - 700 - 3 * k)})

\* the phase of the cell (x, y), 1 (show old), 2 (scatter) or 3 (reform),
\* and the bound its draw is compared with
CellPhase(g, x, y) ==
    IF ShowOld(g, x, y)
    THEN [phase |-> 1, percent |-> ScatterPercent(g, x, y)]
    ELSE IF BeforeReform(g, x, y)
    THEN [phase |-> 2, percent |-> 75]
    ELSE [phase |-> 3, percent |-> ReformPercent(g, x, y)]

PoofRuneKeepsOld(cell, fromR, toR, d, particle) ==
    IF cell.phase = 1
    THEN (IF d < cell.percent THEN particle ELSE fromR)
    ELSE IF cell.phase = 2
    THEN (IF d < cell.percent THEN particle ELSE fromR)
    ELSE (IF d < cell.percent THEN toR ELSE particle)

\* the rune written for a cell, d the value of secureRandInt(100) and
\* particle the value of secureRandRune(poofChars)
PoofRune(cell, fromR, toR, d, particle) ==
    IF cell.phase = 1
    THEN (IF d < cell.percent THEN particle ELSE fromR)
    ELSE IF cell.phase = 2
    THEN (IF d < cell.percent THEN particle ELSE " ")
    ELSE (IF d < cell.percent THEN toR ELSE particle)

\* the runes the two draws of a cell can write
PoofRunes(cell, fromR, toR) ==
    {PoofRune(cell, fromR, toR, d, poofChars[c]) :
        d \in RandInt100, c \in DOMAIN poofChars}

\* the contents of the poof calls, and their calls <<from, to, m.width>>:
\* grids of at most three cells
PoofContents ==
    {<<>>, <<"a">>, <<"a", "b">>, styleOn \o <<"b">> \o styleOff,
     <<"a", "\n", "b">>}

PoofWidths == {0, 1, 2, 3}

PoofCalls ==
    {c \in PoofContents \X PoofContents \X PoofWidths :
        LET grid == PoofGrid(c[1], c[2])
        IN grid.maxLines * MaxCols(grid, c[3], 0) <= 3}

InitPoof ==
    /\ pc = "callPoof"
    /\ \E c \in PoofCalls :
          /\ argFrom = c[1]
          /\ argContent = c[2]
          /\ argWidth = c[3]
    /\ argHeight = 1
    /\ argValue \in ProgressValues
    /\ cellX = 0
    /\ cellY = 0
    /\ argNodes = <<>>
    /\ argProfile = TrueColor
    /\ result = <<>>
    /\ IdleSession

\* renderDocumentView calls m.applyPoofToViewport(fromContent, toContent):
\* the short-circuit, or the start of the loop over the rows
PoofCall ==
    /\ pc = "callPoof"
    /\ IF NearlyComplete(argValue)
       THEN /\ result' = argContent
            /\ pc' = "donePoof"
       ELSE /\ result' = <<>>
            /\ pc' = "rowPoof"
    /\ cellX' = 0
    /\ cellY' = 0
    /\ UNCHANGED <<sessionVars, argNodes, argProfile, argContent,
                 argFrom, argValue, argWidth,
                   argHeight>>

\* for y := 0; y < maxLines; y++: the head of the loop body, or the return
PoofRow ==
    /\ pc = "rowPoof"
    /\ IF cellY < PoofGrid(argFrom, argContent).maxLines
       THEN /\ result' = result \o (IF cellY > 0 THEN <<"\n">> ELSE <<>>)
            /\ cellX' = 0
            /\ pc' = "cellPoof"
       ELSE /\ pc' = "donePoof"
            /\ UNCHANGED <<result, cellX>>
    /\ UNCHANGED <<sessionVars, argNodes, argProfile, argContent,
                 argFrom, argValue, argWidth,
                   argHeight, cellY>>

\* for x := 0; x < maxCols; x++: one cell, or the end of the row
PoofCell ==
    /\ pc = "cellPoof"
    /\ LET grid  == PoofGrid(argFrom, argContent)
           g     == PoofGeometry(argValue, argWidth, grid.maxLines)
           cell  == CellPhase(g, cellX, cellY)
           fromR == RuneAt(CleanLine(grid.fromClean, cellY), cellX)
           toR   == RuneAt(CleanLine(grid.toClean, cellY), cellX)
       IN IF cellX < MaxCols(grid, argWidth, cellY)
          THEN /\ \E r \in PoofRunes(cell, fromR, toR) :
                     result' = Append(result, r)
               /\ cellX' = cellX + 1
               /\ UNCHANGED <<pc, cellY>>
          ELSE /\ cellY' = cellY + 1
               /\ pc' = "rowPoof"
               /\ UNCHANGED <<result, cellX>>
    /\ UNCHANGED <<sessionVars, argNodes, argProfile, argContent,
                 argFrom, argValue, argWidth,
                   argHeight>>

\* one call of either compositor
CompositorNext == WaveCall \/ PoofCall \/ PoofRow \/ PoofCell

CompositorSpec == (InitWave \/ InitPoof) /\ [][CompositorNext]_vars

\* one call of applyPoofToViewport
PoofNext == PoofCall \/ PoofRow \/ PoofCell

PoofSpec == InitPoof /\ [][PoofNext]_vars

----------------------------------------------------------------------------
(* The animation ticks of a session (C1 - C5) *)

\* a step in which a running animation received a tick
TickedAnimation == animTicks' = animTicks + 1

\* C1: whatever keys, resizes and ticks Update receives after NewModel and
\* Init, at most one animation tick is scheduled and not yet delivered.
C1_TicksNeverOverlap == pendingTicks <= 1

\* a poof started by the "r" key has its first tick pending
C1_Witness == animType = AnimPoof /\ animTicks = 0 /\ pendingTicks = 1

\* C2: a tick delivered while animType = AnimNone changes none of animType,
\* animValue, animVelocity, animTarget, animFromContent and animToContent
\* (nor anything else of the Model) and schedules no tick, however often it
\* is delivered.
C2_StrayTickIsNoOp ==
    [][strayTicks' > strayTicks =>
          /\ animType = AnimNone
          /\ UNCHANGED <<animType, animValue, animVelocity, animTarget,
                         animFromContent, animToContent>>
          /\ M' = M
          /\ pendingTicks' = pendingTicks
          /\ quitting' = quitting]_vars

\* stray ticks were handled one after the other once the wave reveal ended
C2_Witness ==
    /\ strayTicks = MaxStray
    /\ animType = AnimNone

C4_AnimationEnds ==
    animType # AnimNone => (animTicks <= 200 /\ pendingTicks > 0)

\* an animation ended on its 201st tick
C4_Witness ==
    /\ animType = AnimNone
    /\ animTicks = 201
    /\ pendingTicks = 0

\* C5: from (0, 0, 1) the progress never decreases from tick to tick and
\* never exceeds 1.0: animValue is in [0, 1] in every reachable state.
C5_Monotone ==
    /\ [](0 <= animValue /\ animValue <= One)
    /\ [][TickedAnimation => animValue' >= animValue]_vars

\* the progress is strictly between 0 and 1 half way through the reveal
C5_Witness ==
    /\ animType = AnimWaveRipple
    /\ animTicks = 100
    /\ animValue > 0
    /\ animValue < One

----------------------------------------------------------------------------
(* The short-circuit of the two compositors (C6) *)

\* the progress of the call is above 0.95
ProgressAbove95 == 100 * argValue > 95 * 20

\* C6: with a progress above 0.95 (1.0 included) the wave reveal returns its
\* content and the poof transition returns toContent, rune for rune, so the
\* stripped text of the result is the stripped toContent.
C6_TargetUnchanged ==
    (pc \in {"doneWave", "donePoof"} /\ ProgressAbove95) =>
        /\ result = argContent
        /\ stripANSI(result) = stripANSI(argContent)

\* a poof at progress 1.0 from a letter to a styled letter has returned
C6_Witness ==
    /\ pc = "donePoof"
    /\ ProgressAbove95
    /\ argFrom = <<"a">>
    /\ argContent = styleOn \o <<"b">> \o styleOff
    /\ result = argContent

----------------------------------------------------------------------------
(* The grid of the poof transition (C11, C12) *)

\* the poof transition ran its loops: the progress was at most 0.95
PoofScanned == pc = "donePoof" /\ ~ProgressAbove95

\* the runes of s outside its lines' breaks, line by line
RowsOf(s) == SplitLines(s)

\* the visual length of row y (from 0) of a content: 0 for a missing row
VisualLength(content, y) ==
    IF y < Len(RowsOf(content))
    THEN Len(stripANSI(RowsOf(content)[y + 1]))
    ELSE 0

\* C11: for progress <= 0.95 the output of the poof transition has
\* max(rows of fromContent, rows of toContent) rows, row y has
\* max(visual length of from row y, visual length of to row y, width) cells,
\* and the output has no escape sequence (no ESC).
C11_PoofGrid ==
    PoofScanned =>
        /\ Len(RowsOf(result))
              = Max(Len(RowsOf(argFrom)), Len(RowsOf(argContent)))
        /\ \A y \in 1..Len(RowsOf(result)) :
              Len(RowsOf(result)[y])
                 = Max(Max(VisualLength(argFrom, y - 1),
                           VisualLength(argContent, y - 1)), argWidth)
        /\ \A i \in 1..Len(result) : result[i] # ESC

\* a one-row styled content replaced a two-row content in a frame of width
\* 0: two rows of one cell
C11_Witness ==
    /\ PoofScanned
    /\ argFrom = <<"a", "\n", "b">>
    /\ argContent = styleOn \o <<"b">> \o styleOff
    /\ argWidth = 0
    /\ Len(result) = 3

\* the character of the cell (x, y) of a content, styling stripped: a blank
\* where the content has no row y or no column x
CharAt(content, x, y) ==
    IF x < VisualLength(content, y)
    THEN stripANSI(RowsOf(content)[y + 1])[x + 1]
    ELSE " "

\* the centre (width / 2, rows / 2) of the grid and the square of
\* maxDistance, its distance from the corner, at least 1
GridCentre ==
    LET rows == Max(Len(RowsOf(argFrom)), Len(RowsOf(argContent)))
        cx   == argWidth \div 2
        cy   == rows \div 2
    IN [cx |-> cx, cy |-> cy, max2 |-> Max(1, cx * cx + cy * cy)]

\* the local progress of the cell (x, y) is at least n / dn (n > 0), with
\* L = progress - 0.2 * distance / maxDistance:
\* distance / maxDistance <= (progress * dn - n) * 5 / dn
LocalAtLeast(c, x, y, n, dn) ==
    LET b == argValue * dn - 20 * n
    IN /\ b >= 0
       /\ ((x - c.cx) * (x - c.cx) + (y - c.cy) * (y - c.cy))
             * (4 * dn) * (4 * dn) <= b * b * c.max2

\* the scatter glyphs
ScatterGlyphs == {poofChars[i] : i \in DOMAIN poofChars}

\* the characters the cell (x, y) can be, over the draws d in 0..99
CellOutcomes(x, y) ==
    LET c       == GridCentre
        fromC   == CharAt(argFrom, x, y)
        toC     == CharAt(argContent, x, y)
        scatter == Cardinality({k \in 1..70 :
                                   LocalAtLeast(c, x, y, 3 * k, 700)})
        reform  == Cardinality({k \in 1..100 :
                                   LocalAtLeast(c, x, y, 700 + 3 * k, 1000)})
    IN IF ~LocalAtLeast(c, x, y, 3, 10)
       THEN {IF d < scatter THEN g ELSE fromC :
                d \in 0..99, g \in ScatterGlyphs}
       ELSE IF ~LocalAtLeast(c, x, y, 7, 10)
       THEN {IF d < 75 THEN g ELSE " " : d \in 0..99, g \in ScatterGlyphs}
       ELSE {IF d < reform THEN toC ELSE g :
                d \in 0..99, g \in ScatterGlyphs}

\* a step that writes the cell (cellX, cellY)
CellWritten == pc = "cellPoof" /\ cellX' = cellX + 1

\* C12: each cell of the poof transition is, for a draw d in 0..99: when
\* L < 0.3 a scatter glyph if d < int(L/0.3*70) and else the from character;
\* when 0.3 <= L < 0.7 a scatter glyph if d < 75 and else a blank; when
\* L >= 0.7 the to character if d < int((L-0.7)/0.3*100) and else a scatter
\* glyph.  Every such outcome can be written and nothing else is.
C12_CellPhases ==
    /\ [][CellWritten =>
             /\ Len(result') = Len(result) + 1
             /\ SubSeq(result', 1, Len(result)) = result
             /\ result'[Len(result')] \in CellOutcomes(cellX, cellY)]_vars
    /\ [](pc = "cellPoof" =>
             LET grid == PoofGrid(argFrom, argContent)
                 g    == PoofGeometry(argValue, argWidth, grid.maxLines)
             IN cellX < MaxCols(grid, argWidth, cellY) =>
                   PoofRunes(CellPhase(g, cellX, cellY),
                             RuneAt(CleanLine(grid.fromClean, cellY), cellX),
                             RuneAt(CleanLine(grid.toClean, cellY), cellX))
                      = CellOutcomes(cellX, cellY))

\* at progress 0.95 the only cell has reformed: the styled "b" replaced "a"
C12_Witness ==
    /\ PoofScanned
    /\ argValue = 19
    /\ argWidth = 1
    /\ argFrom = <<"a">>
    /\ argContent = styleOn \o <<"b">> \o styleOff
    /\ result = <<"b">>

----------------------------------------------------------------------------
(* The wave reveal (C7 - C10) *)

\* rune k of the line is part of an escape sequence: an ESC, or after an
\* ESC with no letter in between
PartOfEscape(line, k) ==
    \/ line[k] = ESC
    \/ \E j \in 1..(k - 1) :
          /\ line[j] = ESC
          /\ \A t \in (j + 1)..(k - 1) : ~IsLetter(line[t])

\* the number of cells among the first k runes of the line
CellsBefore(line, k) == Cardinality({i \in 1..k : ~PartOfEscape(line, i)})

\* the wave reveal ran its scan: the progress was at most 0.95
WaveScanned == pc = "doneWave" /\ 100 * argValue <= 95 * 20

\* the distance of the cell (x, y) from the centre (width/2, height/2) is
\* below maxRadius * num / 2000, maxRadius the distance of the centre from
\* the corner
CloserThan(x, y, num) ==
    LET cx == argWidth \div 2
        cy == argHeight \div 2
    IN /\ num > 0
       /\ ((x - cx) * (x - cx) + (y - cy) * (y - cy)) * 4000000
             < (cx * cx + cy * cy) * num * num

\* the revealed region: distance < radius - ringWidth, with
\* radius = progress * maxRadius * 1.15 and ringWidth = 0.12 * maxRadius
Revealed(x, y) == CloserThan(x, y, 115 * argValue - 240)

\* the ring: radius - ringWidth <= distance < radius
OnRing(x, y) == ~Revealed(x, y) /\ CloserThan(x, y, 115 * argValue)

\* the escape sequences read so far (seqs), the one being read (cur) and
\* whether one is being read (open), after the rune st.i of s
EscapeRune(st, s) ==
    LET r == s[st.i]
    IN IF r = ESC THEN [st EXCEPT !.cur = <<ESC>>, !.open = TRUE, !.i = @ + 1]
       ELSE IF ~st.open THEN [st EXCEPT !.i = @ + 1]
       ELSE IF IsLetter(r)
       THEN [seqs |-> Append(st.seqs, Append(st.cur, r)), cur |-> <<>>,
             open |-> FALSE, i |-> st.i + 1]
       ELSE [st EXCEPT !.cur = Append(@, r), !.i = @ + 1]

RECURSIVE EscapeRange(_, _, _)
EscapeRange(st, s, hi) ==
    IF st.i > hi THEN st
    ELSE IF st.i = hi THEN EscapeRune(st, s)
    ELSE EscapeRange(EscapeRange(st, s, (st.i + hi) \div 2), s, hi)

\* the escape sequences of s in order, each from its ESC through its first
\* letter
EscapeSequences(s) ==
    EscapeRange([seqs |-> <<>>, cur |-> <<>>, open |-> FALSE, i |-> 1],
                s, Len(s)).seqs

\* the wave's own sequences, written around a ring glyph
IsWaveCode(q) == q \in {blueLight, blueMed, blueDark, reset}

IsContentCode(q) == ~IsWaveCode(q)

RECURSIVE RevealedEscapesFrom(_, _, _, _, _)
\* the escape sequences of a content line whose position (the next cell of
\* the line) is in the revealed region
RevealedEscapesFrom(line, k, y, cur, open) ==
    IF k > Len(line) THEN <<>>
    ELSE IF line[k] = ESC THEN RevealedEscapesFrom(line, k + 1, y, <<ESC>>, TRUE)
    ELSE IF ~open THEN RevealedEscapesFrom(line, k + 1, y, cur, FALSE)
    ELSE IF IsLetter(line[k])
    THEN (IF Revealed(CellsBefore(line, k), y)
          THEN <<Append(cur, line[k])>> ELSE <<>>)
         \o RevealedEscapesFrom(line, k + 1, y, <<>>, FALSE)
    ELSE RevealedEscapesFrom(line, k + 1, y, Append(cur, line[k]), TRUE)

\* C7: for progress <= 0.95 the escape sequences of the content that the
\* wave reveal emits are exactly those whose position (the row of the line,
\* the visual column of the next cell) is strictly inside the revealed
\* region, distance < waveRadius - waveWidth; the others are dropped.
C7_EscapesGated ==
    WaveScanned =>
        LET srcLines == SplitLines(argContent)
            outLines == SplitLines(result)
        IN /\ Len(outLines) = Len(srcLines)
           /\ \A y \in 1..Len(srcLines) :
                 SelectSeq(EscapeSequences(outLines[y]), IsContentCode)
                    = RevealedEscapesFrom(srcLines[y], 1, y - 1, <<>>, FALSE)

\* a line with a sequence that was emitted and one that was dropped
C7_Witness ==
    /\ WaveScanned
    /\ \E y \in 1..Len(SplitLines(argContent)) :
          LET line == SplitLines(argContent)[y]
          IN /\ Len(EscapeSequences(line)) = 2
             /\ Len(RevealedEscapesFrom(line, 1, y - 1, <<>>, FALSE)) = 1
             /\ Len(SelectSeq(EscapeSequences(SplitLines(result)[y]),
                              IsContentCode)) = 1

\* the styling in effect along a string: style is TRUE from the content's
\* styleOn to the next reset (the content's styleOff or the wave's reset),
\* (row, col) is the next cell, leak records a cell outside the revealed
\* region written while style is TRUE, and malformed a sequence cut short
\* or unknown
StyleRune(st, s) ==
    LET r == s[st.i]
        q == Append(st.cur, r)
    IN IF r = ESC
       THEN [st EXCEPT !.open = TRUE, !.cur = <<ESC>>, !.i = @ + 1,
                       !.malformed = @ \/ st.open]
       ELSE IF st.open /\ IsLetter(r)
       THEN [st EXCEPT !.open = FALSE, !.cur = <<>>, !.i = @ + 1,
                       !.style = IF q = styleOn THEN TRUE
                                 ELSE IF q \in {styleOff, reset} THEN FALSE
                                 ELSE @,
                       !.malformed = @ \/ (q # styleOn /\ ~IsWaveCode(q)
                                              /\ q # styleOff)]
       ELSE IF st.open
       THEN [st EXCEPT !.cur = q, !.i = @ + 1,
                       !.malformed = @ \/ r = "\n"]
       ELSE IF r = "\n"
       THEN [st EXCEPT !.row = @ + 1, !.col = 0, !.i = @ + 1]
       ELSE [st EXCEPT !.col = @ + 1, !.i = @ + 1,
                       !.leak = @ \/ (st.style /\ ~Revealed(st.col, st.row))]

RECURSIVE StyleRange(_, _, _)
StyleRange(st, s, hi) ==
    IF st.i > hi THEN st
    ELSE IF st.i = hi THEN StyleRune(st, s)
    ELSE StyleRange(StyleRange(st, s, (st.i + hi) \div 2), s, hi)

StyleAlong(s) ==
    StyleRange([i |-> 1, open |-> FALSE, cur |-> <<>>, style |-> FALSE,
                row |-> 0, col |-> 0, leak |-> FALSE, malformed |-> FALSE],
               s, Len(s))

\* every sequence of the content is a whole styleOn or styleOff, and the
\* content closes the styling it opens
WellStyled(s) ==
    LET st == StyleAlong(s)
    IN ~st.malformed /\ ~st.open /\ ~st.style

\* C8: in the output of the wave reveal for a well styled content, no ring
\* cell and no hidden cell is written while a styling sequence opened by the
\* content is in effect, and no styling is in effect when the output ends.
C8_StylingNeverLeaks ==
    (WaveScanned /\ WellStyled(argContent)) =>
        LET st == StyleAlong(result)
        IN ~st.leak /\ ~st.style

\* C9: while a line is scanned the visual column counter does not move on a
\* control character (a tab), nor on a character of an escape sequence.
C9_ControlKeepsColumn ==
    WaveScanned =>
        \A y \in 1..Len(SplitLines(argContent)) :
            LET line == SplitLines(argContent)[y]
                g == Geometry(argValue, argWidth, argHeight)
            IN \A k \in 1..Len(line) :
                  (line[k] = "\t" \/ PartOfEscape(line, k)) =>
                      ScanLine(g, SubSeq(line, 1, k), y - 1).visualCol
                         = ScanLine(g, SubSeq(line, 1, k - 1), y - 1).visualCol

\* C10: for progress <= 0.95 the output has as many lines as the content,
\* line y has max(width, visual length of content line y) cells, and cell x
\* is the original character (a blank beyond the end of the line) when it
\* is in the revealed region, a ring glyph when it is on the ring, and a
\* blank otherwise.
C10_CellsClassified ==
    WaveScanned =>
        LET srcLines == SplitLines(argContent)
            outLines == SplitLines(result)
        IN /\ Len(outLines) = Len(srcLines)
           /\ \A y \in 1..Len(srcLines) :
                 LET src   == stripANSI(srcLines[y])
                     cells == stripANSI(outLines[y])
                 IN /\ Len(cells) = Max(argWidth, Len(src))
                    /\ \A x \in 1..Len(cells) :
                          IF Revealed(x - 1, y - 1)
                          THEN cells[x] = (IF x <= Len(src) THEN src[x] ELSE " ")
                          ELSE IF OnRing(x - 1, y - 1)
                          THEN cells[x] \in {LightShade, MediumShade, DarkShade}
                          ELSE cells[x] = " "

\* a padded line showing an original character, a ring glyph and a blank
C10_Witness ==
    /\ WaveScanned
    /\ \E y \in 1..Len(SplitLines(result)) :
          LET cells == stripANSI(SplitLines(result)[y])
          IN /\ Len(stripANSI(SplitLines(argContent)[y])) < argWidth
             /\ \E x \in 1..Len(cells) : cells[x] = "a"
             /\ \E x \in 1..Len(cells) :
                   cells[x] \in {LightShade, MediumShade, DarkShade}
             /\ \E x \in 1..Len(cells) :
                   cells[x] = " " /\ ~Revealed(x - 1, y - 1)

----------------------------------------------------------------------------
(* stripANSI (C13) *)

\* the elements of s that are not part of an escape sequence, in order
OutsideEscapes(s) ==
    LET kept == {k \in 1..Len(s) : ~PartOfEscape(s, k)}
    IN [i \in 1..Cardinality(kept) |->
           s[CHOOSE k \in kept : Cardinality({j \in kept : j <= k}) = i]]

\* C13: for every input string stripANSI returns the input without its
\* escape sequences, each running from an ESC through the first ASCII letter
\* after it or to the end of the string: the result has no ESC and keeps
\* every other character, in order.
C13_StripKeepsTheRest ==
    pc = "doneStrip" =>
        /\ result = OutsideEscapes(argContent)
        /\ \A i \in 1..Len(result) : result[i] # ESC

\* C13, amended: the result has no ESC and is the input without its escape
\* sequences where the input is valid UTF-8; a byte outside an escape
\* sequence that is no valid UTF-8 comes out as U+FFFD.
C13_StripDecodesTheRest ==
    pc = "doneStrip" =>
        /\ Len(result) = Len(OutsideEscapes(argContent))
        /\ \A i \in 1..Len(result) :
              /\ result[i] # ESC
              /\ result[i] = (IF OutsideEscapes(argContent)[i] = BadByte
                              THEN RuneError
                              ELSE OutsideEscapes(argContent)[i])

\* a sequence ended by its letter, an invalid byte kept as U+FFFD, and a
\* sequence that runs to the end of the string
C13_Witness ==
    /\ pc = "doneStrip"
    /\ argContent = <<ESC, "m", BadByte, ESC, "[">>
    /\ result = <<RuneError>>

----------------------------------------------------------------------------
(* The rendering engine (src/ui/render.go).  Strings are sequences of      *)
(* runes, as in the compositors; len() of a string is its length in bytes. *)

\* the runes of the model that take two and three bytes in UTF-8
TwoByteRunes == {"U+00E9"}
\* the box-drawing glyphs U+2500 (horizontal), U+2502 (vertical), the
\* corners and junctions, the bullet U+2022 and the star U+2605
BoxH == "U+2500"
BoxV == "U+2502"
BoxRunes == {BoxH, BoxV, "U+250C", "U+2510", "U+2514", "U+2518", "U+256D",
             "U+256E", "U+2570", "U+256F", "U+252C", "U+2534", "U+251C",
             "U+2524", "U+253C"}
Bullet == "U+2022"
Star == "U+2605"
ThreeByteRunes == BoxRunes \cup {Bullet, Star, RuneError}

RuneBytes(r) ==
    IF r \in TwoByteRunes THEN 2 ELSE IF r \in ThreeByteRunes THEN 3 ELSE 1

\* the number of bytes of the first n runes of s
RECURSIVE BytesBefore(_, _)
BytesBefore(s, n) ==
    IF n = 0 THEN 0 ELSE RuneBytes(s[n]) + BytesBefore(s, n - 1)

\* len(s)
ByteLen(s) == BytesBefore(s, Len(s))

\* the number of runes of s, where an invalid byte counts as one rune
\* (utf8.RuneCountInString)
RuneCount(s) == Len(s)

\* strings.Repeat(r, count) of a string of one rune r, for a count that is
\* not negative
Repeat(r, count) == [i \in 1..count |-> r]

\* strings.Repeat panics on a negative count
RepeatPanics(count) == count < 0

Spaces(n) == [i \in 1..n |-> " "]

\* strings.Index(s, r) for a one-byte rune r, as the number of runes before
\* the first r, and -1 where s has none
Index(s, r) ==
    IF \E i \in 1..Len(s) : s[i] = r
    THEN (CHOOSE i \in 1..Len(s) :
              s[i] = r /\ \A j \in 1..(i - 1) : s[j] # r) - 1
    ELSE 0 - 1

\* s[lo:hi], and s[lo:], between runes
Slice(s, lo, hi) == SubSeq(s, lo + 1, hi)

SliceFrom(s, lo) == SubSeq(s, lo + 1, Len(s))

\* strings.HasPrefix(s, prefix)
HasPrefix(s, prefix) ==
    Len(s) >= Len(prefix) /\ SubSeq(s, 1, Len(prefix)) = prefix

\* strings.Join(lines, "\n")
RECURSIVE JoinLines(_)
JoinLines(lines) ==
    IF Len(lines) = 0 THEN <<>>
    ELSE IF Len(lines) = 1 THEN lines[1]
    ELSE lines[1] \o <<"\n">> \o JoinLines(Tail(lines))

(* lipgloss.Style.Render, of the library: under a colour profile the text  *)
(* is written between the SGR sequence of the style and the reset          *)
(* sequence, line by line; under the Ascii profile no sequence is written. *)
(* The colour parameters of a style are abbreviated to their 16-colour     *)
(* codes.  Padding and Width add blanks; lines longer than the width are   *)
(* wrapped by the library, which no document of the model needs.           *)

\* the SGR parameters of the style roles (src/ui/styles.go)
StyleParams(role) ==
    CASE role = "Bold"          -> <<"1", ";", "9", "7">>
      [] role = "Italic"        -> <<"3", ";", "3", "6">>
      [] role = "Underline"     -> <<"4", ";", "3", "3">>
      [] role = "Strikethrough" -> <<"9", ";", "9", "0">>
      [] role = "Verbatim"      -> <<"3", "2", ";", "4", "0">>
      [] role = "InlineCode"    -> <<"9", "1", ";", "4", "0">>
      [] role = "Timestamp"     -> <<"3", "6", ";", "4", "0">>
      [] role = "Scheduled"     -> <<"1", ";", "3", "2">>
      [] role = "Deadline"      -> <<"1", ";", "3", "1">>
      [] role = "Closed"        -> <<"9", "0">>
      [] role = "Heading1"      -> <<"1", ";", "3", "1">>
      [] role = "Heading2"      -> <<"1", ";", "9", "1">>
      [] role = "Heading3"      -> <<"1", ";", "3", "3">>
      [] role = "Heading4"      -> <<"3", "2">>
      [] role = "Paragraph"     -> <<"3", "7">>
      [] role = "ListBullet"    -> <<"1", ";", "3", "6">>
      [] role = "ListItem"      -> <<"3", "7">>
      [] role = "TableBorder"   -> <<"9", "0">>
      [] role = "TableHeader"   -> <<"1", ";", "3", "4", ";", "4", "0">>
      [] role = "TableCell"     -> <<"3", "7">>
      [] role = "HRule"         -> <<"9", "0">>
      [] role = "BlockHeader"   -> <<"9", "0">>
      [] role = "CodeBlock"     -> <<"3", "7", ";", "4", "0">>

\* Padding(vertical, horizontal) of the style roles
PaddingOf(role) ==
    CASE role = "Timestamp" -> <<0, 1>>
      [] role = "CodeBlock" -> <<1, 2>>
      [] OTHER              -> <<0, 0>>

StyleOn(role) == <<ESC, "[">> \o StyleParams(role) \o <<"m">>

StyleReset == <<ESC, "[", "0", "m">>

\* one line under the style
Styled(styles, role, line) ==
    IF styles = Ascii THEN line ELSE StyleOn(role) \o line \o StyleReset

\* the printable width of a line
LineWidth(line) == Len(stripANSI(line))

\* the lines between the blanks of the horizontal padding h
InnerLines(lines, h) ==
    [i \in 1..Len(lines) |-> Spaces(h) \o lines[i] \o Spaces(h)]

\* the printable width of the widest line
Widest(lines) ==
    CHOOSE n \in {LineWidth(lines[i]) : i \in 1..Len(lines)} :
        \A i \in 1..Len(lines) : LineWidth(lines[i]) <= n

\* the width every line is filled to: one line under no width is left as
\* it is
FillWidth(lines, w) ==
    IF Len(lines) = 1 /\ w <= 0 THEN Widest(lines) ELSE Max(w, Widest(lines))

\* a line filled with blanks up to n cells
FillLine(line, n) == line \o Spaces(n - LineWidth(line))

\* the lines filled to n cells between v blank lines of the vertical padding
FilledLines(lines, n, v) ==
    [i \in 1..v |-> Spaces(n)]
    \o [i \in 1..Len(lines) |-> FillLine(lines[i], n)]
    \o [i \in 1..v |-> Spaces(n)]

\* each line under the style
StyledLines(styles, role, lines) ==
    JoinLines([i \in 1..Len(lines) |-> Styled(styles, role, lines[i])])

RenderLines(styles, role, w, lines, v) ==
    StyledLines(styles, role, FilledLines(lines, FillWidth(lines, w), v))

\* style.Width(w).Render(str); w = 0 where the style has no width
RenderWidth(styles, role, w, str) ==
    RenderLines(styles, role, w,
                InnerLines(SplitLines(str), PaddingOf(role)[2]),
                PaddingOf(role)[1])

\* style.Render(str)
Render(styles, role, str) == RenderWidth(styles, role, 0, str)

(* The document tree (goorg.Node).  Every node of the model has the same   *)
(* fields: tag is its Go type, the others the fields of that type that the *)
(* renderer reads.                                                         *)

NoNode ==
    [tag |-> "", Kind |-> "", Content |-> <<>>, Children |-> <<>>,
     Title |-> <<>>, Lvl |-> 0, Parameters |-> <<>>, IsSpecial |-> FALSE]

\* goorg.Text{Content: content}
Text(content) == [NoNode EXCEPT !.tag = "Text", !.Content = content]

\* goorg.Emphasis{Kind: kind, Content: nodes}
Emphasis(kind, nodes) ==
    [NoNode EXCEPT !.tag = "Emphasis", !.Kind = kind, !.Children = nodes]

\* goorg.LineBreak{}
LineBreak == [NoNode EXCEPT !.tag = "LineBreak"]

\* goorg.Macro{Name: name}: an inline node renderInlineNode has no case for
Macro(name) == [NoNode EXCEPT !.tag = "Macro", !.Content = name]

\* goorg.Comment{Content: content}: a node RenderNode has no case for
Comment(content) == [NoNode EXCEPT !.tag = "Comment", !.Content = content]

\* goorg.Paragraph{Children: nodes}
Paragraph(nodes) == [NoNode EXCEPT !.tag = "Paragraph", !.Children = nodes]

\* goorg.Headline{Lvl: lvl, Title: title, Children: nodes}, with no status,
\* priority or tags
Headline(lvl, title, nodes) ==
    [NoNode EXCEPT !.tag = "Headline", !.Lvl = lvl, !.Title = title,
                   !.Children = nodes]

\* goorg.List{Items: items}
List(items) == [NoNode EXCEPT !.tag = "List", !.Children = items]

\* goorg.ListItem{Bullet: bullet, Children: nodes}, with no checkbox; the
\* bullet is kept in Content
ListItem(bullet, nodes) ==
    [NoNode EXCEPT !.tag = "ListItem", !.Content = bullet,
                   !.Children = nodes]

\* goorg.Column{Children: nodes}
Column(nodes) == [NoNode EXCEPT !.tag = "Column", !.Children = nodes]

\* goorg.Row{Columns: columns, IsSpecial: isSpecial}
Row(columns, isSpecial) ==
    [NoNode EXCEPT !.tag = "Row", !.Children = columns,
                   !.IsSpecial = isSpecial]

\* goorg.Table{Rows: rows}
Table(rows) == [NoNode EXCEPT !.tag = "Table", !.Children = rows]

\* goorg.HorizontalRule{}
HorizontalRule == [NoNode EXCEPT !.tag = "HorizontalRule"]

\* goorg.Block{Name: "SRC", Parameters: parameters, Children: {Text(code)}}
SourceBlock(parameters, code) ==
    [NoNode EXCEPT !.tag = "Block", !.Kind = "SRC",
                   !.Parameters = parameters, !.Children = <<Text(code)>>]

\* NewRenderer(styles, width)
NewRenderer(styles, w) == [styles |-> styles, width |-> w]

(* Inline content *)

Digits == {"0", "1", "2", "3", "4", "5", "6", "7", "8", "9"}

\* isInactiveTimestamp, which reads the four digits of the year only
isInactiveTimestampYearOnly(content) ==
    /\ ByteLen(content) >= 10
    /\ \A k \in 1..4 : DecodeRune(content[k]) \in Digits

\* isInactiveTimestamp(content): the runes of content[:10] with their byte
\* offsets i; a rune cut by the slice is read as utf8.RuneError
isInactiveTimestamp(content) ==
    /\ ByteLen(content) >= 10
    /\ \A k \in 1..Len(content) :
          LET i == BytesBefore(content, k - 1)
              c == IF i + RuneBytes(content[k]) > 10
                   THEN RuneError
                   ELSE DecodeRune(content[k])
          IN i < 10 =>
                 IF i = 4 \/ i = 7 THEN c = "-" ELSE c \in Digits

\* a turn of the loop of renderInactiveTimestamps breaks: remaining has no
\* "[", or no "]" after its first "["
ScanBreaks(remaining) ==
    \/ Index(remaining, "[") = 0 - 1
    \/ Index(SliceFrom(remaining, Index(remaining, "[")), "]") = 0 - 1

\* a turn that loses the rune after the "]"
ScanRemainingSkipsOne(remaining) ==
    LET start == Index(remaining, "[")
        end == Index(SliceFrom(remaining, start), "]") + start
    IN SliceFrom(remaining, end + 2)

\* remaining after a turn that does not break: remaining[end+1:]
ScanRemaining(remaining) ==
    LET start == Index(remaining, "[")
        end == Index(SliceFrom(remaining, start), "]") + start
    IN SliceFrom(remaining, end + 1)

\* renderInactiveTimestamps(content); each turn of the loop takes remaining
\* up to its first "]" after its first "["
RECURSIVE renderInactiveTimestamps(_, _)
renderInactiveTimestamps(r, remaining) ==
    LET start == Index(remaining, "[")
        end == Index(SliceFrom(remaining, start), "]") + start
        timestampContent == Slice(remaining, start + 1, end)
        rest == renderInactiveTimestamps(r, ScanRemaining(remaining))
    IN IF start = 0 - 1 THEN remaining
       ELSE IF Index(SliceFrom(remaining, start), "]") = 0 - 1 THEN remaining
       ELSE IF ByteLen(timestampContent) >= 10
               /\ isInactiveTimestamp(timestampContent)
       THEN Slice(remaining, 0, start)
            \o Render(r.styles, "Timestamp",
                      <<"[">> \o timestampContent \o <<"]">>)
            \o rest
       ELSE Slice(remaining, 0, end + 1) \o rest

\* the planning keywords of renderText and their style roles
planningKeywords ==
    << [keyword |-> <<"S","C","H","E","D","U","L","E","D",":">>,
        style |-> "Scheduled"],
       [keyword |-> <<"D","E","A","D","L","I","N","E",":">>,
        style |-> "Deadline"],
       [keyword |-> <<"C","L","O","S","E","D",":">>, style |-> "Closed"] >>

\* renderText(content), from the planning keyword k on
RECURSIVE renderTextFrom(_, _, _)
renderTextFrom(r, content, k) ==
    IF k > Len(planningKeywords) THEN renderInactiveTimestamps(r, content)
    ELSE LET pk == planningKeywords[k] IN
         IF HasPrefix(content, pk.keyword)
         THEN Render(r.styles, pk.style, pk.keyword)
              \o renderInactiveTimestamps(
                     r, SliceFrom(content, Len(pk.keyword)))
         ELSE IF HasPrefix(content, <<" ">> \o pk.keyword)
         THEN <<" ">> \o Render(r.styles, pk.style, pk.keyword)
              \o renderInactiveTimestamps(
                     r, SliceFrom(content, Len(pk.keyword) + 1))
         ELSE renderTextFrom(r, content, k + 1)

renderText(r, content) == renderTextFrom(r, content, 1)

\* a node with no case is written as nothing
FormatVEmpty(n) == <<>>

\* fmt.Sprintf("%v", n) of a goorg.Macro with no parameters
FormatV(n) == <<"{">> \o n.Content \o <<" ", "[", "]", "}">>

\* the switch of renderEmphasis where "=" is given the role of "~"
EmphasisRoleVerbatimAsCode(kind) ==
    CASE kind = "*" -> "Bold"
      [] kind = "/" -> "Italic"
      [] kind = "_" -> "Underline"
      [] kind = "=" -> "InlineCode"
      [] kind = "~" -> "InlineCode"
      [] kind = "+" -> "Strikethrough"
      [] OTHER      -> ""

\* the style role renderEmphasis gives to a marker, "" for any other kind
EmphasisRole(kind) ==
    CASE kind = "*" -> "Bold"
      [] kind = "/" -> "Italic"
      [] kind = "_" -> "Underline"
      [] kind = "=" -> "Verbatim"
      [] kind = "~" -> "InlineCode"
      [] kind = "+" -> "Strikethrough"
      [] OTHER      -> ""

RECURSIVE renderInlineNodes(_, _)
RECURSIVE renderInlineNode(_, _)

\* renderEmphasis(e)
renderEmphasis(r, e) ==
    LET content == renderInlineNodes(r, e.Children)
    IN IF EmphasisRole(e.Kind) = "" THEN content
       ELSE Render(r.styles, EmphasisRole(e.Kind), content)

\* renderInlineNode(node), for the inline nodes of the model
renderInlineNode(r, n) ==
    CASE n.tag = "Text"      -> renderText(r, n.Content)
      [] n.tag = "Emphasis"  -> renderEmphasis(r, n)
      [] n.tag = "LineBreak" -> <<"\n">>
      [] OTHER               -> FormatV(n)

\* renderInlineNodes(nodes)
renderInlineNodes(r, nodes) ==
    IF nodes = <<>> THEN <<>>
    ELSE renderInlineNode(r, Head(nodes))
         \o renderInlineNodes(r, Tail(nodes))

(* Block content *)

\* the style role of a headline of level lvl (the bottom border of
\* Heading1 is not modelled: the headlines of the model have level 2 or more)
HeadingRole(lvl) ==
    CASE lvl = 1 -> "Heading1"
      [] lvl = 2 -> "Heading2"
      [] lvl = 3 -> "Heading3"
      [] OTHER   -> "Heading4"

\* extractBlockText(nodes) for Text children: strings.TrimSuffix(b, "\n")
TrimNewline(s) ==
    IF Len(s) > 0 /\ s[Len(s)] = "\n" THEN SubSeq(s, 1, Len(s) - 1) ELSE s

RECURSIVE ConcatContent(_)
ConcatContent(nodes) ==
    IF nodes = <<>> THEN <<>>
    ELSE Head(nodes).Content \o ConcatContent(Tail(nodes))

extractBlockText(nodes) == TrimNewline(ConcatContent(nodes))

\* highlightCode(code, lang): the code itself without a language, and else
\* the output of the chroma formatter, here one token colour around each line
highlightCode(code, lang) ==
    IF lang = <<>> THEN code
    ELSE LET lines == SplitLines(code)
         IN JoinLines([i \in 1..Len(lines) |->
                <<ESC, "[", "3", "8", ";", "5", ";", "1", "m">>
                \o lines[i] \o StyleReset])

\* headerWidth of renderSourceBlock
HeaderWidth(r) == IF r.width - 8 < 10 THEN 10 ELSE r.width - 8

\* header of renderSourceBlock
SourceHeader(r, lang) ==
    IF lang # <<>>
    THEN LET langLabel == <<" ">> \o lang \o <<" ">>
             lineLen == Max(HeaderWidth(r) - ByteLen(langLabel) - 2, 0)
         IN Render(r.styles, "BlockHeader",
                   <<"U+250C", BoxH>> \o langLabel \o Repeat(BoxH, lineLen)
                   \o <<"U+2510">>)
    ELSE Render(r.styles, "BlockHeader",
                <<"U+250C">> \o Repeat(BoxH, HeaderWidth(r)) \o <<"U+2510">>)

\* footer of renderSourceBlock
SourceFooter(r) ==
    Render(r.styles, "BlockHeader",
           <<"U+2514">> \o Repeat(BoxH, HeaderWidth(r)) \o <<"U+2518">>)

\* renderSourceBlock(block)
renderSourceBlock(r, block) ==
    LET content == extractBlockText(block.Children)
        lang == IF Len(block.Parameters) > 0
                THEN block.Parameters[1] ELSE <<>>
        highlighted == highlightCode(content, lang)
        codeBlock == RenderWidth(r.styles, "CodeBlock", r.width - 6,
                                 highlighted)
    IN SourceHeader(r, lang) \o <<"\n">> \o codeBlock \o <<"\n">>
       \o SourceFooter(r)

\* renderHorizontalRule(), where strings.Repeat does not panic
renderHorizontalRule(r) ==
    Render(r.styles, "HRule", Repeat(BoxH, r.width - 4))

\* renderParagraph(p)
renderParagraph(r, p) ==
    RenderWidth(r.styles, "Paragraph", r.width - 4,
                renderInlineNodes(r, p.Children))

(* renderTable *)

\* the body of the loop over the columns of a row, which leaves the
\* rendered length as it is
WidthsAfterColumnNoMinimum(r, colWidths, i, col) ==
    LET cw == ByteLen(renderInlineNodes(r, col.Children))
    IN IF i >= Len(colWidths) THEN Append(colWidths, cw)
       ELSE IF cw > colWidths[i + 1]
       THEN [colWidths EXCEPT ![i + 1] = cw]
       ELSE colWidths

\* the body of the loop over the columns of a row: column i (from 0)
WidthsAfterColumn(r, colWidths, i, col) ==
    LET content == renderInlineNodes(r, col.Children)
        cw == IF ByteLen(content) < 3 THEN 3 ELSE ByteLen(content)
    IN IF i >= Len(colWidths) THEN Append(colWidths, cw)
       ELSE IF cw > colWidths[i + 1]
       THEN [colWidths EXCEPT ![i + 1] = cw]
       ELSE colWidths

\* the loop over the columns of a row, from column i on
RECURSIVE WidthsAfterRow(_, _, _, _)
WidthsAfterRow(r, colWidths, row, i) ==
    IF i >= Len(row.Children) THEN colWidths
    ELSE WidthsAfterRow(
             r, WidthsAfterColumn(r, colWidths, i, row.Children[i + 1]),
             row, i + 1)

\* the loop over the rows, from row k (from 0) on
RECURSIVE WidthsFrom(_, _, _, _)
WidthsFrom(r, colWidths, rows, k) ==
    IF k >= Len(rows) THEN colWidths
    ELSE IF rows[k + 1].IsSpecial THEN WidthsFrom(r, colWidths, rows, k + 1)
    ELSE WidthsFrom(r, WidthsAfterRow(r, colWidths, rows[k + 1], 0),
                    rows, k + 1)

\* colWidths of renderTable
ColWidths(r, table) == WidthsFrom(r, <<>>, table.Children, 0)

\* renderBorder(left, mid, right, fill), from column i (from 0) on
RECURSIVE BorderFrom(_, _, _, _, _)
BorderFrom(r, colWidths, mid, fill, i) ==
    IF i >= Len(colWidths) THEN <<>>
    ELSE Render(r.styles, "TableBorder", Repeat(fill, colWidths[i + 1] + 2))
         \o (IF i < Len(colWidths) - 1
             THEN Render(r.styles, "TableBorder", <<mid>>) ELSE <<>>)
         \o BorderFrom(r, colWidths, mid, fill, i + 1)

renderBorder(r, colWidths, left, mid, right, fill) ==
    Render(r.styles, "TableBorder", <<left>>)
    \o BorderFrom(r, colWidths, mid, fill, 0)
    \o Render(r.styles, "TableBorder", <<right>>)

\* fmt.Sprintf(" %-*s ", width, content): blanks up to width runes
Padded(n, content) ==
    <<" ">> \o content \o Spaces(n - RuneCount(content)) \o <<" ">>

\* the cells of a row, from column i (from 0) on
RECURSIVE CellsFrom(_, _, _, _, _)
CellsFrom(r, colWidths, row, isHeader, i) ==
    IF i >= Len(row.Children) THEN <<>>
    ELSE LET content == renderInlineNodes(r, row.Children[i + 1].Children)
             cw == IF i < Len(colWidths) THEN colWidths[i + 1] ELSE 3
             padded == Padded(cw, content)
         IN Render(r.styles,
                   IF isHeader THEN "TableHeader" ELSE "TableCell", padded)
            \o Render(r.styles, "TableBorder", <<BoxV>>)
            \o CellsFrom(r, colWidths, row, isHeader, i + 1)

\* the rows of renderTable, from row rowIdx (from 0) on
RECURSIVE RowsFrom(_, _, _, _)
RowsFrom(r, colWidths, rows, rowIdx) ==
    IF rowIdx >= Len(rows) THEN <<>>
    ELSE LET row == rows[rowIdx + 1]
             isHeader == rowIdx = 0 /\ Len(rows) > 1 /\ rows[2].IsSpecial
         IN (IF row.IsSpecial
             THEN renderBorder(r, colWidths, "U+251C", "U+253C", "U+2524",
                               BoxH)
             ELSE Render(r.styles, "TableBorder", <<BoxV>>)
                  \o CellsFrom(r, colWidths, row, isHeader, 0))
            \o <<"\n">>
            \o RowsFrom(r, colWidths, rows, rowIdx + 1)

\* renderTable(table)
renderTable(r, table) ==
    LET colWidths == ColWidths(r, table)
    IN IF Len(table.Children) = 0 \/ Len(colWidths) = 0 THEN <<>>
       ELSE renderBorder(r, colWidths, "U+256D", "U+252C", "U+256E", BoxH)
            \o <<"\n">>
            \o RowsFrom(r, colWidths, table.Children, 0)
            \o renderBorder(r, colWidths, "U+2570", "U+2534", "U+256F", BoxH)

(* The dispatcher *)

RECURSIVE RenderNode(_, _)
RECURSIVE ChildrenFrom(_, _, _)
RECURSIVE ItemContent(_, _, _)
RECURSIVE NestedContent(_, _, _, _)
RECURSIVE renderListItem(_, _, _)
RECURSIVE ItemsFrom(_, _, _, _)

\* the loops of RenderNodes and of renderHeadline over nodes, from node i
\* (from 1) on: a node that renders as "" adds nothing
ChildrenFrom(r, nodes, i) ==
    IF i > Len(nodes) THEN <<>>
    ELSE LET rendered == RenderNode(r, nodes[i])
         IN (IF rendered # <<>> THEN rendered \o <<"\n">> ELSE <<>>)
            \o ChildrenFrom(r, nodes, i + 1)

\* RenderNodes(nodes)
RenderNodes(r, nodes) == ChildrenFrom(r, nodes, 1)

\* renderHeadline(h)
renderHeadline(r, h) ==
    LET stars == Repeat(Star, h.Lvl)
        title == renderInlineNodes(r, h.Title)
        headline == stars \o <<" ">> \o title
    IN Render(r.styles, HeadingRole(h.Lvl), headline) \o <<"\n">>
       \o ChildrenFrom(r, h.Children, 1)

\* content of renderListItem: the loop over item.Children, from child i on
ItemContent(r, children, i) ==
    IF i > Len(children) THEN <<>>
    ELSE (CASE children[i].tag = "Paragraph" ->
                   renderInlineNodes(r, children[i].Children)
            [] children[i].tag = "List" -> <<>>
            [] OTHER -> RenderNode(r, children[i]))
         \o ItemContent(r, children, i + 1)

\* nestedContent of renderListItem
NestedContent(r, children, indent, i) ==
    IF i > Len(children) THEN <<>>
    ELSE (IF children[i].tag = "List"
          THEN <<"\n">>
               \o TrimNewline(ItemsFrom(r, children[i].Children,
                                        indent + 1, 1))
          ELSE <<>>)
         \o NestedContent(r, children, indent, i + 1)

\* renderListItem(item, indent)
renderListItem(r, item, indent) ==
    LET bullet == IF \E i \in 1..Len(item.Content) :
                         item.Content[i] \in Digits
                  THEN item.Content ELSE <<Bullet>>
    IN Spaces(2 * indent)
       \o Render(r.styles, "ListBullet", bullet)
       \o <<" ">>
       \o Render(r.styles, "ListItem", ItemContent(r, item.Children, 1))
       \o NestedContent(r, item.Children, indent, 1)

\* the loops of renderList and renderListWithIndent over the items, from
\* item i on
ItemsFrom(r, items, indent, i) ==
    IF i > Len(items) THEN <<>>
    ELSE (IF items[i].tag = "ListItem"
          THEN renderListItem(r, items[i], indent) \o <<"\n">>
          ELSE <<>>)
         \o ItemsFrom(r, items, indent, i + 1)

\* renderList(list)
renderList(r, list) == ItemsFrom(r, list.Children, 0, 1)

\* RenderNode(node), for the block nodes of the model
RenderNode(r, node) ==
    CASE node.tag = "Headline"       -> renderHeadline(r, node)
      [] node.tag = "Block"          -> renderSourceBlock(r, node)
      [] node.tag = "Paragraph"      -> renderParagraph(r, node)
      [] node.tag = "List"           -> renderList(r, node)
      [] node.tag = "ListItem"       -> renderListItem(r, node, 0)
      [] node.tag = "Table"          -> renderTable(r, node)
      [] node.tag = "HorizontalRule" -> renderHorizontalRule(r)
      [] OTHER                       -> <<>>

\* whether rendering the nodes reaches a strings.Repeat with a negative
\* count, which panics: the repeat of renderHorizontalRule is the only one
\* whose count can be negative
RECURSIVE Panics(_, _)
Panics(r, nodes) ==
    \E i \in 1..Len(nodes) :
        \/ nodes[i].tag = "HorizontalRule" /\ RepeatPanics(r.width - 4)
        \/ nodes[i].tag \in {"Headline", "ListItem", "List"}
           /\ Panics(r, nodes[i].Children)

(* One call of renderDocument: the documents, window widths and colour     *)
(* profiles of the model                                                   *)

\* the pieces a plain text of the model is made of
ClosedText == <<"C", "l", "o", "s", "e", "d", " ">>
NoteText == <<"N", "o", "t", "e", " ">>
DateMon == <<"[", "2", "0", "2", "4", "-", "0", "1", "-", "1", "5", " ",
             "M", "o", "n", "]">>
DateOnly == <<"[", "2", "0", "2", "4", "-", "0", "1", "-", "1", "5", "]">>
ShortDate == <<"[", "2", "0", "2", "4", "-", "1", "-", "1", "5", " ", "M",
               "o", "n", "]">>
NotADate == <<"[", "n", "o", "t", " ", "a", " ", "d", "a", "t", "e", "]">>
Accents == <<"[", "U+00E9", "U+00E9", "U+00E9", "U+00E9", "U+00E9", "]">>
OpenOnly == <<"[", "a", " ">>
CloseOnly == <<"]">>
ClosedKeyword == <<"C", "L", "O", "S", "E", "D", ":", " ">>

TextPieces == {ClosedText, NoteText, DateMon, DateOnly, ShortDate, NotADate,
               Accents, OpenOnly, CloseOnly, ClosedKeyword}

\* the largest number of pieces of a plain text
MaxPieces == 3

Texts ==
    {Flatten(ps) : ps \in UNION {[1..n -> TextPieces] : n \in 1..MaxPieces}}

\* the kinds of goorg.Emphasis: the six markers, and superscript
EmphasisKinds == {"*", "/", "_", "=", "~", "+", "^{}"}

Word == <<Text(<<"a", "b">>)>>

\* inline contents: emphasis, nested emphasis, a node with no case, a line
\* break between words
SpanContents ==
    {<<Emphasis(k, Word)>> : k \in EmphasisKinds}
    \cup {<<Text(<<"x", " ">>), Emphasis(k, Word), Text(<<" ", "y">>)>> :
              k \in EmphasisKinds}
    \cup {<<Emphasis(k, <<Text(<<"a">>), Emphasis(j, Word)>>)>> :
              k \in {"*", "_"}, j \in {"/", "+", "^{}"}}
    \cup {Word, <<Macro(<<"m">>)>>, <<Text(<<"a">>), Macro(<<"m">>)>>,
          <<Text(<<"a">>), LineBreak, Text(<<"b">>)>>}

\* each inline content as a paragraph, a heading title and the paragraph of
\* a list item, and each plain text as a paragraph
InlineDocs ==
    {<<Paragraph(c)>> : c \in SpanContents}
    \cup {<<Headline(l, c, <<>>)>> : l \in {2, 3}, c \in SpanContents}
    \cup {<<List(<<ListItem(<<"-">>, <<Paragraph(c)>>)>>)>> :
              c \in SpanContents}
    \cup {<<Paragraph(<<Text(t)>>)>> : t \in Texts}

\* the contents of a table cell
CellContents ==
    {<<>>, <<Text(<<"a", "b">>)>>, <<Text(<<"a", "b", "c", "d", "e">>)>>,
     <<Emphasis("*", Word)>>, <<Text(<<"U+00E9", "U+00E9">>)>>}

\* rows of one and two columns, and the separator rows
DataRows ==
    {Row(<<Column(a)>>, FALSE) : a \in CellContents}
    \cup {Row(<<Column(a), Column(b)>>, FALSE) :
              a \in CellContents, b \in CellContents}

SeparatorRows ==
    {Row(<<>>, TRUE),
     Row(<<Column(<<Text(<<"-", "-", "-", "-", "-", "-", "-">>)>>)>>, TRUE)}

\* a row whose cells have the rendered lengths 5, 2 and 8
Row528 ==
    Row(<<Column(<<Text(<<"a", "b", "c", "d", "e">>)>>),
          Column(<<Text(<<"a", "b">>)>>),
          Column(<<Text(<<"a", "b", "c", "d", "e", "f", "g", "h">>)>>)>>,
        FALSE)

TableDocs ==
    {<<Table(<<a>>)>> : a \in DataRows \cup {Row528}}
    \cup {<<Table(<<a, s, b>>)>> :
              a \in DataRows, s \in SeparatorRows, b \in DataRows}
    \cup {<<Table(<<s>>)>> : s \in SeparatorRows}
    \cup {<<Table(<<>>)>>}

\* the languages of a source block: none, "go", "python", "javascript"
Languages ==
    {<<>>, <<<<"g", "o">>>>, <<<<"p", "y", "t", "h", "o", "n">>>>,
     <<<<"j", "a", "v", "a", "s", "c", "r", "i", "p", "t">>>>}

\* block nodes: a rule, source blocks, a node with no case, a paragraph, a
\* heading and a list item that hold a rule or a node with no case
BlockNodes ==
    {HorizontalRule, Comment(<<"c">>), Paragraph(Word),
     Headline(2, Word, <<HorizontalRule>>),
     Headline(2, <<Text(<<"a">>), Macro(<<"m">>)>>,
              <<Comment(<<"c">>), Paragraph(Word)>>),
     List(<<ListItem(<<"1", ".">>, <<Paragraph(Word), Comment(<<"c">>)>>)>>),
     List(<<ListItem(<<"-">>,
                     <<Paragraph(Word),
                       List(<<ListItem(<<"-">>, <<HorizontalRule>>)>>)>>)>>)}
    \cup {SourceBlock(p, <<"x", "\n">>) : p \in Languages}

\* the largest number of block nodes of a document put together from
\* BlockNodes
MaxBlocks == 2

BlockDocs == UNION {[1..n -> BlockNodes] : n \in 0..MaxBlocks}

\* m.width of the call: 0 before the first tea.WindowSizeMsg, and the widths
\* of narrow and wide windows
RenderWidths == {0, 11, 12, 30, 88}

\* the width the tests give the renderer: NewRenderer(styles, 80)
TestWidth == 80

\* the window of that renderer: renderDocument hands NewRenderer m.width - 8
WideWindow == TestWidth + 8

\* the calls <<doc.Nodes, m.width, profile>> of the model: the documents of
\* blocks at every width, the inline contents and the tables in the wide
\* window; every paragraph fits the width its style is given, so that the
\* library wraps no line
RenderCalls ==
    (BlockDocs \X RenderWidths \X {Ascii, TrueColor})
    \cup ((InlineDocs \cup TableDocs) \X {WideWindow} \X {Ascii, TrueColor})

InitRender ==
    /\ pc = "callRender"
    /\ \E c \in RenderCalls :
          /\ argNodes = c[1]
          /\ argWidth = c[2]
          /\ argProfile = c[3]
    /\ argContent = <<>>
    /\ argFrom = <<>>
    /\ argValue = 0
    /\ argHeight = 0
    /\ cellX = 0
    /\ cellY = 0
    /\ result = <<>>
    /\ IdleSession

\* m.viewport.SetContent(m.renderDocument(m.currentDoc)) for a document
\* with no title, author or date: the string renderDocument returns, or the
\* panic of strings.Repeat
RenderCall ==
    /\ pc = "callRender"
    /\ LET renderer == NewRenderer(argProfile, argWidth - 8)
       IN IF Panics(renderer, argNodes)
          THEN /\ pc' = "panic"
               /\ result' = <<>>
          ELSE /\ pc' = "doneRender"
               /\ result' = RenderNodes(renderer, argNodes)
    /\ UNCHANGED <<sessionVars, argNodes, argProfile, argContent,
                   argFrom, argValue, argWidth, argHeight, cellX, cellY>>

RenderSpec == InitRender /\ [][RenderCall]_vars

----------------------------------------------------------------------------
(* Claims about the rendering engine *)

\* the renderer of the call
CallRenderer == NewRenderer(argProfile, argWidth - 8)

\* the largest element of a non-empty set of numbers
MaxOf(S) == CHOOSE n \in S : \A k \in S : k <= n

\* the rows of a table that are not separator rows
DataRowsOf(table) ==
    {k \in 1..Len(table.Children) : ~table.Children[k].IsSpecial}

\* the number of columns of the widest data row
NumColumns(table) ==
    MaxOf({0} \cup {Len(table.Children[k].Children) :
                        k \in DataRowsOf(table)})

\* len() of the rendered inline content of cell i (from 1) of row k
CellLength(r, table, k, i) ==
    ByteLen(renderInlineNodes(r, table.Children[k].Children[i].Children))

\* max(3, the largest rendered length of column i over the data rows that
\* have a column i)
ExpectedWidth(r, table, i) ==
    MaxOf({3} \cup {CellLength(r, table, k, i) :
                        k \in {d \in DataRowsOf(table) :
                                   i <= Len(table.Children[d].Children)}})

\* the top border of a table whose columns have the widths ws
TopBorder(ws) ==
    <<"U+256D">>
    \o Flatten([i \in 1..Len(ws) |->
                   Repeat(BoxH, ws[i] + 2)
                   \o (IF i < Len(ws) THEN <<"U+252C">> ELSE <<>>)])
    \o <<"U+256E">>

\* line n of the result, without its escape sequences
PlainLine(n) == stripANSI(SplitLines(result)[n])

\* C14: the width of column i of a table is max(3, the largest length of
\* the rendered inline content of cell i over the rows that are not
\* separators and have a column i), as computed and as drawn in the top
\* border; widths 5, 2 and 8 give 5, 3 and 8.
C14_ColumnWidths ==
    (pc = "doneRender" /\ Len(argNodes) = 1 /\ argNodes[1].tag = "Table") =>
        LET table == argNodes[1]
            expected == [i \in 1..NumColumns(table) |->
                            ExpectedWidth(CallRenderer, table, i)]
        IN /\ ColWidths(CallRenderer, table) = expected
           /\ IF NumColumns(table) = 0 THEN result = <<>>
              ELSE PlainLine(1) = TopBorder(expected)

\* rendered lengths 5, 2 and 8 are drawn as 5, 3 and 8
C14_Witness ==
    /\ pc = "doneRender"
    /\ argNodes = <<Table(<<Row528>>)>>
    /\ ColWidths(CallRenderer, argNodes[1]) = <<5, 3, 8>>
    /\ PlainLine(1) = TopBorder(<<5, 3, 8>>)

\* the visual length of the rendered inline content of cell i of row k:
\* its length without its escape sequences
VisualCellLength(r, table, k, i) ==
    LineWidth(renderInlineNodes(r, table.Children[k].Children[i].Children))

\* max(3, the largest visual length of column i over the data rows)
VisualWidth(r, table, i) ==
    MaxOf({3} \cup {VisualCellLength(r, table, k, i) :
                        k \in {d \in DataRowsOf(table) :
                                   i <= Len(table.Children[d].Children)}})

\* C15: the columns of a table are sized by the visual length of their
\* cells: escape sequences in the rendered content of a cell add nothing to
\* the width of its column, so styled text gets the column width of the
\* same text unstyled.
C15_VisualWidths ==
    (pc = "doneRender" /\ Len(argNodes) = 1 /\ argNodes[1].tag = "Table"
     /\ NumColumns(argNodes[1]) > 0) =>
        LET table == argNodes[1]
            visual == [i \in 1..NumColumns(table) |->
                          VisualWidth(CallRenderer, table, i)]
        IN /\ ColWidths(CallRenderer, table) = visual
           /\ PlainLine(1) = TopBorder(visual)

\* the plain text of the call, where the document is one paragraph of one
\* Text node
IsPlainText ==
    /\ Len(argNodes) = 1
    /\ argNodes[1].tag = "Paragraph"
    /\ Len(argNodes[1].Children) = 1
    /\ argNodes[1].Children[1].tag = "Text"

PlainText == argNodes[1].Children[1].Content

\* X has at least 10 characters, the first 10 of the shape dddd-dd-dd
DateShaped(X) ==
    /\ Len(X) >= 10
    /\ \A k \in 1..10 :
          IF k = 5 \/ k = 8 THEN X[k] = "-" ELSE X[k] \in Digits

\* the position of the first rune c of t after position i, 0 if none
NextAfter(t, i, c) ==
    IF \E j \in (i + 1)..Len(t) : t[j] = c
    THEN CHOOSE j \in (i + 1)..Len(t) :
             t[j] = c /\ \A k \in (i + 1)..(j - 1) : t[k] # c
    ELSE 0

\* the segment t[i..j] styled as a timestamp
StyledSegment(t, i, j) ==
    Render(argProfile, "Timestamp", SubSeq(t, i, j))

\* the text from position p on where every segment "[X]" with a
\* date-shaped X, from its "[" to the first "]" after it, is styled and
\* every other rune is written as it is
RECURSIVE EverySegmentStyled(_, _)
EverySegmentStyled(t, p) ==
    IF p > Len(t) THEN <<>>
    ELSE IF t[p] = "[" /\ NextAfter(t, p, "]") # 0
            /\ DateShaped(SubSeq(t, p + 1, NextAfter(t, p, "]") - 1))
    THEN StyledSegment(t, p, NextAfter(t, p, "]"))
         \o EverySegmentStyled(t, NextAfter(t, p, "]") + 1)
    ELSE <<t[p]>> \o EverySegmentStyled(t, p + 1)

\* the first "[" of t at or after position p, and the first "]" after
\* position i: 0 if none
FirstOpen(t, p) == NextAfter(t, p - 1, "[")

FirstClose(t, i) == IF i = 0 THEN 0 ELSE NextAfter(t, i, "]")

\* the segment t[i..j], styled where its X is date-shaped
SegmentOf(t, i, j) ==
    IF DateShaped(SubSeq(t, i + 1, j - 1))
    THEN StyledSegment(t, i, j)
    ELSE SubSeq(t, i, j)

RECURSIVE SegmentsInTurn(_, _)

\* the text from position p on, whose next segment is t[i..j]
TurnFrom(t, p, i, j) ==
    IF i = 0 \/ j = 0 THEN SubSeq(t, p, Len(t))
    ELSE SubSeq(t, p, i - 1) \o SegmentOf(t, i, j)
         \o SegmentsInTurn(t, j + 1)

\* the text from position p on where the segments are taken in turn from
\* left to right, each from the first "[" at or after the end of the one
\* before to the first "]" after it: a segment is styled where its X is
\* date-shaped, and every other segment, a "[" inside it included, and all
\* text outside the segments is written as it is
SegmentsInTurn(t, p) ==
    IF p > Len(t) THEN <<>>
    ELSE TurnFrom(t, p, FirstOpen(t, p), FirstClose(t, FirstOpen(t, p)))

\* the planning keywords the text starts with, after at most one blank
LeadKeywords(t) ==
    {k \in 1..Len(planningKeywords) :
        \/ HasPrefix(t, planningKeywords[k].keyword)
        \/ HasPrefix(t, <<" ">> \o planningKeywords[k].keyword)}

\* the number of runes of the text up to the end of its planning keyword
LeadLength(t) ==
    IF LeadKeywords(t) = {} THEN 0
    ELSE LET pk == planningKeywords[MaxOf(LeadKeywords(t))]
         IN IF HasPrefix(t, pk.keyword)
            THEN Len(pk.keyword) ELSE Len(pk.keyword) + 1

\* the planning keyword as it is written: under its style, after its blank
LeadWritten(t) ==
    IF LeadKeywords(t) = {} THEN <<>>
    ELSE LET pk == planningKeywords[MaxOf(LeadKeywords(t))]
         IN (IF HasPrefix(t, pk.keyword) THEN <<>> ELSE <<" ">>)
            \o Render(argProfile, pk.style, pk.keyword)

\* the text after its planning keyword
AfterLead(t) == SubSeq(t, LeadLength(t) + 1, Len(t))

\* the paragraph RenderNodes writes for an inline content
InParagraph(content) ==
    RenderWidth(argProfile, "Paragraph", argWidth - 12, content)
    \o <<"\n">>

\* C16: in plain text every bracketed segment "[X]" whose X has at least
\* 10 characters, the first 10 of the shape dddd-dd-dd, is styled as a
\* timestamp, and all other text, every other bracketed segment included,
\* is written as it is.
C16_EverySegmentStyled ==
    (pc = "doneRender" /\ IsPlainText) =>
        result = InParagraph(LeadWritten(PlainText)
                             \o EverySegmentStyled(AfterLead(PlainText), 1))

\* C16, amended: the segments are taken in turn from left to right, each
\* from the first "[" after the segment before to the first "]" after it;
\* a segment with a date-shaped X is styled as a timestamp, and every other
\* segment and all text outside the segments is written as it is, so that
\* a timestamp that follows an unclosed "[" is not styled.
C16_SegmentsInTurn ==
    (pc = "doneRender" /\ IsPlainText) =>
        result = InParagraph(LeadWritten(PlainText)
                             \o SegmentsInTurn(AfterLead(PlainText), 1))

\* "Closed [2024-01-15 Mon][not a date]": the first segment is styled and
\* the second is not
C16_Witness ==
    /\ pc = "doneRender"
    /\ IsPlainText
    /\ PlainText = ClosedText \o DateMon \o NotADate
    /\ argProfile = TrueColor
    /\ result = InParagraph(ClosedText
                            \o StyleOn("Timestamp") \o <<" ">> \o DateMon
                            \o <<" ">> \o StyleReset \o NotADate)

\* C17: for every content width, the widths below every fixed margin and
\* the zero width before the first resize included, rendering never
\* computes a negative repeat count and never panics.
C17_NeverPanics ==
    /\ pc # "panic"
    /\ (pc = "doneRender" => ~Panics(CallRenderer, argNodes))

\* the number of lines RenderNodes writes: each ends with a line break
NumLines == Len(SplitLines(result)) - 1

\* C18: at every content width the top border and the bottom border of a
\* source block have the same visual width, with and without a language
\* name in the top border.
C18_BordersAlign ==
    (pc = "doneRender" /\ Len(argNodes) = 1 /\ argNodes[1].tag = "Block") =>
        /\ PlainLine(1)[1] = "U+250C"
        /\ PlainLine(NumLines)[1] = "U+2514"
        /\ Len(PlainLine(1)) = Len(PlainLine(NumLines))

\* the tags RenderNode and renderInlineNode have a case for
BlockTags == {"Headline", "Block", "Paragraph", "List", "ListItem", "Table",
              "HorizontalRule"}
InlineTags == {"Text", "Emphasis", "LineBreak"}

\* the nodes of a sequence whose tag is in a set
Keep(nodes, tags) ==
    LET kept == {i \in 1..Len(nodes) : nodes[i].tag \in tags}
        nth(k) == CHOOSE i \in kept : Cardinality({j \in kept : j <= i}) = k
    IN [k \in 1..Cardinality(kept) |-> nodes[nth(k)]]

\* a tree without the inline nodes that have no case
RECURSIVE DropInline(_)
DropInline(nodes) ==
    LET kept == Keep(nodes, InlineTags)
    IN [k \in 1..Len(kept) |->
           [kept[k] EXCEPT !.Children = DropInline(@)]]

\* a tree without the block nodes that have no case and, where inline is
\* TRUE, without the inline nodes that have no case
RECURSIVE DropUnknown(_, _)
DropUnknown(nodes, inline) ==
    LET kept == Keep(nodes, BlockTags \cup {"Row", "Column"})
        inlineOf(c) == IF inline THEN DropInline(c) ELSE c
    IN [k \in 1..Len(kept) |->
           IF kept[k].tag \in {"Paragraph", "Column"}
           THEN [kept[k] EXCEPT !.Children = inlineOf(@)]
           ELSE IF kept[k].tag = "Block" THEN kept[k]
           ELSE [kept[k] EXCEPT !.Children = DropUnknown(@, inline),
                                !.Title = inlineOf(@)]]

\* the nodes of a tree
RECURSIVE NodesOf(_)
NodesOf(nodes) ==
    UNION {{nodes[i]} \cup NodesOf(nodes[i].Children)
           \cup NodesOf(nodes[i].Title) : i \in 1..Len(nodes)}

\* the inline nodes of the document that have no case
UnknownInline == {n \in NodesOf(argNodes) : n.tag = "Macro"}

\* the default format of a goorg.Macro value with no parameters: its fields
\* between braces
DefaultFormat(n) == <<"{">> \o n.Content \o <<" ", "[", "]", "}">>

\* sub is a part of s
Contains(s, sub) ==
    \E i \in 1..(Len(s) - Len(sub) + 1) :
        SubSeq(s, i, i + Len(sub) - 1) = sub

Markers == {"*", "/", "_", "=", "~", "+"}

MarkerRole ==
    [k \in Markers |->
        CASE k = "*" -> "Bold"
          [] k = "/" -> "Italic"
          [] k = "_" -> "Underline"
          [] k = "=" -> "Verbatim"
          [] k = "~" -> "InlineCode"
          [] k = "+" -> "Strikethrough"]

\* the inline content of a document that is one paragraph, one heading or
\* one list item whose text is in a Paragraph child
HasInline ==
    /\ Len(argNodes) = 1
    /\ \/ argNodes[1].tag \in {"Paragraph", "Headline"}
       \/ /\ argNodes[1].tag = "List"
          /\ Len(argNodes[1].Children) = 1
          /\ Len(argNodes[1].Children[1].Children) = 1
          /\ argNodes[1].Children[1].Children[1].tag = "Paragraph"

InlineOfDoc ==
    CASE argNodes[1].tag = "Paragraph" -> argNodes[1].Children
      [] argNodes[1].tag = "Headline"  -> argNodes[1].Title
      [] argNodes[1].tag = "List" ->
             argNodes[1].Children[1].Children[1].Children

\* words and emphasis under the six markers only, with some emphasis
MarkedWords(nodes) ==
    /\ \A n \in NodesOf(nodes) :
          \/ n.tag = "Text" /\ \A i \in 1..Len(n.Content) : n.Content[i] # "["
          \/ n.tag = "Emphasis" /\ n.Kind \in Markers
    /\ \E n \in NodesOf(nodes) : n.tag = "Emphasis"

\* an inline content where every emphasis node is its content, rendered in
\* the same way, under the style role of its marker
RECURSIVE UnderRoles(_)
UnderRoles(nodes) ==
    IF nodes = <<>> THEN <<>>
    ELSE (IF Head(nodes).tag = "Text" THEN Head(nodes).Content
          ELSE IF argProfile = Ascii THEN UnderRoles(Head(nodes).Children)
          ELSE StyleOn(MarkerRole[Head(nodes).Kind])
               \o UnderRoles(Head(nodes).Children) \o StyleReset)
         \o UnderRoles(Tail(nodes))

\* C20: each of the six emphasis markers renders its recursively rendered
\* content under its own style role (bold, italic, underline, verbatim,
\* inline code, strikethrough), in a paragraph, in a heading title and in a
\* list item whose text is in a Paragraph child.
C20_MarkersToRoles ==
    (pc = "doneRender" /\ HasInline /\ MarkedWords(InlineOfDoc)) =>
        Contains(result, UnderRoles(InlineOfDoc))

\* inline code in a list item, under the InlineCode role
C20_Witness ==
    /\ pc = "doneRender"
    /\ argProfile = TrueColor
    /\ argNodes = <<List(<<ListItem(<<"-">>,
                                    <<Paragraph(<<Emphasis("~", Word)>>)>>)>>)>>
    /\ Contains(result, StyleOn("InlineCode") \o <<"a", "b">> \o StyleReset)

----------------------------------------------------------------------------
(* The session: how a transition starts *)

\* a step that creates a poof transition
PoofCreated == animType # AnimPoof /\ animType' = AnimPoof

\* C21: a poof transition is created only by the 'r' key pressed in the
\* document view with the help closed and no animation active; the step is
\* the one Update takes on 'r', and it leaves animValue = 0, animVelocity = 0,
\* animTarget = 1, animFromContent the viewport view before the toggle,
\* animToContent the viewport view after it, rawView flipped and exactly one
\* tick scheduled
C21_PoofCreation ==
    [][PoofCreated =>
          /\ currentView = ViewDocument
          /\ ~showHelp
          /\ animType = AnimNone
          /\ M' = Update(M, KeyMsg("r")).m
          /\ animValue' = 0
          /\ animVelocity' = 0
          /\ animTarget' = One
          /\ animFromContent' = ViewportView(viewport)
          /\ animToContent' = ViewportView(viewport')
          /\ rawView' = ~rawView
          /\ pendingTicks = 0
          /\ pendingTicks' = 1]_vars

\* a transition from the rendered to the raw view was just created
C21_Witness ==
    /\ animType = AnimPoof
    /\ animValue = 0
    /\ rawView
    /\ animFromContent.content.kind = "rendered"
    /\ animToContent.content.kind = "raw"

\* C22: the wave reveal is used once per session: it is the active animation
\* of the initial state, and once animType has left AnimWaveRipple no later
\* step makes it AnimWaveRipple again
C22_WaveOnce ==
    /\ animType = AnimWaveRipple
    /\ [][animType # AnimWaveRipple => animType' # AnimWaveRipple]_vars

\* the reveal is over and a later animation has been advanced by ticks
C22_Witness ==
    /\ animType = AnimPoof
    /\ animTicks >= 2
    /\ currentView = ViewDocument

\* C23: in every reachable state an animation is active exactly when one
\* tick is pending, and no tick is pending when animType is AnimNone
C23_ActiveIffOneTick ==
    /\ animType # AnimNone <=> pendingTicks = 1
    /\ animType = AnimNone => pendingTicks = 0

\* the document view was left, with the help open, while a poof was running
C23_Witness ==
    /\ animType = AnimPoof
    /\ currentView = ViewFileList
    /\ showHelp
    /\ pendingTicks = 1

----------------------------------------------------------------------------
(* The session: views, documents and the selection *)

\* C24: in every reachable state currentView is ViewDocument exactly when
\* currentDoc is set, and in the document view currentDoc is
\* orgFiles[selectedIndex], a document of the session
C24_DocumentViewHasDocument ==
    /\ currentView = ViewDocument <=> currentDoc # NilDoc
    /\ currentView = ViewDocument =>
          currentDoc = selectedIndex /\ currentDoc \in 0..(nDocs - 1)

\* the second document is shown raw
C24_Witness ==
    /\ currentView = ViewDocument
    /\ currentDoc = 1
    /\ rawView

\* C25: for any number of loaded documents, none included, selectedIndex is
\* never negative and never exceeds max(0, len(orgFiles) - 1)
C25_SelectionInRange ==
    /\ selectedIndex >= 0
    /\ selectedIndex <= Max(0, nDocs - 1)

----------------------------------------------------------------------------
(* The session: keys that change nothing *)

\* the fields of the session a closing help overlay leaves alone
BesidesHelp ==
    <<width, height, nDocs, selectedIndex, currentView, viewport, ready,
      currentDoc, rawView, animType, animValue, animVelocity, animTarget,
      animFromContent, animToContent, pendingTicks, quitting>>

\* C26: while the help overlay is shown every key press only closes it:
\* Update returns the Model with showHelp false and nothing else changed, no
\* tick and no quit; and every step of the session that closes the overlay
\* leaves the view, the document, the selection, rawView and the animation
\* state as they were
C26_HelpSwallowsKeys ==
    /\ [](showHelp =>
            \A key \in Keys :
                LET r == Update(M, KeyMsg(key))
                IN /\ r.m = [M EXCEPT !.showHelp = FALSE]
                   /\ r.ticks = 0
                   /\ ~r.quit)
    /\ [][showHelp /\ ~showHelp' => UNCHANGED BesidesHelp]_vars

\* the overlay is open over a raw document whose poof is running
C26_Witness ==
    /\ showHelp
    /\ currentView = ViewDocument
    /\ rawView
    /\ animType = AnimPoof
    /\ animTicks >= 1

\* C27: an 'r' pressed while an animation is active (wave reveal or poof) or
\* outside the document view changes nothing: rawView, the viewport and its
\* content, animType, animValue, animVelocity, animFromContent and
\* animToContent are as before and no tick is scheduled
C27_RawKeyIgnored ==
    (animType # AnimNone \/ currentView # ViewDocument) =>
        LET r == Update(M, KeyMsg("r"))
        IN /\ r.m.rawView = rawView
           /\ r.m.viewport = viewport
           /\ r.m.animType = animType
           /\ r.m.animValue = animValue
           /\ r.m.animVelocity = animVelocity
           /\ r.m.animFromContent = animFromContent
           /\ r.m.animToContent = animToContent
           /\ r.ticks = 0

\* the document view with the help closed, halfway through a poof back to
\* the rendered view
C27_Witness ==
    /\ currentView = ViewDocument
    /\ ~showHelp
    /\ ~rawView
    /\ animType = AnimPoof
    /\ animValue > 500000

\* C28: whenever a poof transition is active and the document view is shown,
\* animToContent is the current viewport view (the current document in the
\* current raw or rendered mode, at the current scroll offset)
C28_TargetIsCurrentView ==
    (animType = AnimPoof /\ currentView = ViewDocument) =>
        animToContent = ViewportView(viewport)

----------------------------------------------------------------------------
(* The session at rest: browsing the documents after the reveal *)

\* the largest number of parsed org files of a browsing session
MaxCycleDocs == 3

\* the number of ticks the reveal takes: the tick that completes it
RevealTicks == 201

\* the keys of a browsing session: every key but the toggle, which starts an
\* animation, and the quit keys
CycleKeys == Keys \ {"r", "q"}

\* the session after the first WindowSizeMsg and the last tick of the
\* reveal, with no key pressed yet
InitCycle ==
    /\ \E s \in Sizes :
          /\ width = s[1]
          /\ height = s[2]
          /\ viewport = [ZeroViewport EXCEPT !.w = s[1] - 4, !.h = s[2] - 7]
    /\ nDocs \in 0..MaxCycleDocs
    /\ selectedIndex = 0
    /\ currentView = ViewFileList
    /\ ready = TRUE
    /\ currentDoc = NilDoc
    /\ showHelp = FALSE
    /\ rawView = FALSE
    /\ animType = AnimNone
    /\ animValue = One
    /\ animVelocity = 0
    /\ animTarget = One
    /\ animFromContent = EmptyView
    /\ animToContent = EmptyView
    /\ pendingTicks = 0
    /\ quitting = FALSE
    /\ animTicks = RevealTicks
    /\ strayTicks = 0
    /\ NoCall

\* the user presses a key of the browsing session
CycleKey == \E key \in CycleKeys : KeyPress(key)

CycleSpec == InitCycle /\ [][CycleKey]_vars

\* the Model after the key is handled
AfterKey(m, key) == Update(m, KeyMsg(key)).m

\* C29: in the document view with the help closed and at least two documents,
\* 'n' followed by 'p' and 'p' followed by 'n' return selectedIndex and
\* currentDoc to their values, 'n' on the last document goes to the first and
\* 'p' on the first goes to the last; with exactly one document both keys
\* leave selectedIndex and currentDoc as they are
C29_NextPrevInverse ==
    (currentView = ViewDocument /\ ~showHelp /\ nDocs >= 1) =>
        LET n  == AfterKey(M, "n")
            p  == AfterKey(M, "p")
            np == AfterKey(n, "p")
            pn == AfterKey(p, "n")
            last == nDocs - 1
        IN /\ nDocs >= 2 =>
                /\ np.selectedIndex = selectedIndex
                /\ np.currentDoc = currentDoc
                /\ pn.selectedIndex = selectedIndex
                /\ pn.currentDoc = currentDoc
                /\ selectedIndex = last =>
                      n.selectedIndex = 0 /\ n.currentDoc = 0
                /\ selectedIndex = 0 =>
                      p.selectedIndex = last /\ p.currentDoc = last
           /\ nDocs = 1 =>
                /\ n.selectedIndex = selectedIndex
                /\ n.currentDoc = currentDoc
                /\ p.selectedIndex = selectedIndex
                /\ p.currentDoc = currentDoc

\* the middle one of three documents is shown, scrolled down
C29_Witness ==
    /\ currentView = ViewDocument
    /\ ~showHelp
    /\ nDocs = 3
    /\ currentDoc = 1
    /\ viewport.yOffset = 1

\* the initial state of the browsing session, as the session reaches it
RestAfterReveal ==
    /\ width = 80
    /\ ready
    /\ selectedIndex = 0
    /\ currentView = ViewFileList
    /\ viewport = [ZeroViewport EXCEPT !.w = 76, !.h = 17]
    /\ currentDoc = NilDoc
    /\ ~showHelp
    /\ ~rawView
    /\ animType = AnimNone
    /\ animValue = One
    /\ animVelocity = 0
    /\ animTarget = One
    /\ animFromContent = EmptyView
    /\ animToContent = EmptyView
    /\ pendingTicks = 0
    /\ ~quitting
    /\ animTicks = RevealTicks
    /\ strayTicks = 0

----------------------------------------------------------------------------
(* The scan for inactive timestamps *)

\* the text renderText hands to the scan, and what the scan returns
ScanInput == AfterLead(PlainText)

ScanOutput == renderInactiveTimestamps(CallRenderer, ScanInput)

\* every turn of the loop from remaining on either breaks or goes on with a
\* strictly shorter remaining
RECURSIVE EveryTurnShortens(_)
EveryTurnShortens(remaining) ==
    \/ ScanBreaks(remaining)
    \/ /\ ByteLen(ScanRemaining(remaining)) < ByteLen(remaining)
       /\ EveryTurnShortens(ScanRemaining(remaining))

\* what the timestamp style writes before and after a segment under a
\* colour profile: the escape sequences and the blank of its padding
TimestampOpen == StyleOn("Timestamp") \o <<" ">>

TimestampClose == <<" ">> \o StyleReset

\* out holds w from position q on
StartsAt(out, q, w) ==
    /\ q >= 1
    /\ q + Len(w) - 1 <= Len(out)
    /\ SubSeq(out, q, q + Len(w) - 1) = w

\* position p of out belongs to what the style wrote around a segment
InWrapper(out, p) ==
    \/ \E q \in (p - Len(TimestampOpen) + 1)..p : StartsAt(out, q, TimestampOpen)
    \/ \E q \in (p - Len(TimestampClose) + 1)..p : StartsAt(out, q, TimestampClose)

\* out with every styled segment replaced by its bracketed text is t
UnstyledIs(out, t) ==
    LET kept == {p \in 1..Len(out) : ~InWrapper(out, p)}
    IN /\ Cardinality(kept) = Len(t)
       /\ \A p \in kept : out[p] = t[Cardinality({q \in kept : q <= p})]

NotBlank(c) == c # " "

\* C30: the scan for inactive timestamps ends, every turn of its loop
\* breaking or strictly shortening the remaining text, and it neither drops,
\* duplicates nor reorders a character: under a colour profile the output
\* with every styled segment replaced by its bracketed text is the input,
\* and under every profile the characters other than the blanks of the
\* padding are those of the input, in their order
C30_ScanKeepsText ==
    (pc = "doneRender" /\ IsPlainText) =>
        /\ result = InParagraph(LeadWritten(PlainText) \o ScanOutput)
        /\ EveryTurnShortens(ScanInput)
        /\ SelectSeq(stripANSI(ScanOutput), NotBlank)
               = SelectSeq(ScanInput, NotBlank)
        /\ argProfile = TrueColor => UnstyledIs(ScanOutput, ScanInput)

\* "[2024-01-15 Mon][not a date][2024-01-15]": three turns of the loop, the
\* first and the third segment styled
C30_Witness ==
    /\ pc = "doneRender"
    /\ IsPlainText
    /\ argProfile = TrueColor
    /\ PlainText = DateMon \o NotADate \o DateOnly
    /\ ScanOutput = TimestampOpen \o DateMon \o TimestampClose \o NotADate
                    \o TimestampOpen \o DateOnly \o TimestampClose

====
